---- MODULE Spec2Model ----
(***************************************************************************)
(* Equation discovery engine: expression generator, GPU evaluation kernel, *)
(* validity filter and the producer/consumer pipeline with its log writer. *)
(* Each subsystem has its own specification over the shared variables:     *)
(*   SpecGen     EquationGenerator.generate_random_batch and its walks     *)
(*   SpecPipe    producer_task / consumer_task / main at the granularity   *)
(*               of queue operations (FairPipe adds process fairness)      *)
(*   SpecStop    the pipeline with the operator's Ctrl+C (FairStop: with   *)
(*               the same fairness; FairMain: main's except clause only)   *)
(*   SpecKernel  one lane of the CUDA kernel evaluate_equations on one row *)
(*   SpecGrid    the lanes of one launch sharing the results buffer, and   *)
(*               the host's read of it in process_batch                    *)
(*   SpecFilter  is_valid_discovery as called by the two consumers, at the *)
(*               granularity of calls on the shared seen_clusters dict     *)
(*   SpecLog     the two consumers' log writes, at the granularity of      *)
(*               calls on the shared log_state dict and file operations    *)
(*   SpecRows    the rows of one batch from the producer's partition and   *)
(*               padding to the rows process_batch strips                  *)
(*   SpecSens    the trivial-target test and the sensitivity loop of       *)
(*               is_valid_discovery for one call                           *)
(*   SpecStart   main from its entry to the start of the workers, with the *)
(*               load of the constants file                                *)
(*   SpecConfig  the run configuration and the batch size, operand range   *)
(*               and tolerances the workers run with                       *)
(*   SpecLaunch  the grid process_batch launches for a batch and the lanes *)
(*               that get past the kernel's guard                          *)
(*   SpecHost    the loop of process_batch over the entries of the results *)
(*               buffer, with _is_interesting                              *)
(*   SpecOrder   the sort of a batch's matches, the deviation threshold    *)
(*               and the calls of is_valid_discovery in consumer_task      *)
(***************************************************************************)
EXTENDS Integers, Sequences, FiniteSets, TLC

(***************************************************************************)
(* Bounds of the model (not program constants).                            *)
(***************************************************************************)
\* largest operand count num_constants handed to _generate_random_rpn
MaxOperands == 3
\* largest batch_size handed to generate_random_batch
MaxBatch == 2
\* largest numerator or denominator of a value the kernel model computes
MaxMag == 1000
\* equations of one kernel launch
MaxLanes == 3
\* entries the results buffer holds (MAX_RESULTS_PER_BATCH, scaled down)
MaxResults == 2
\* most matches process_batch returns for one batch
MaxMatches == 1
\* most records the two consumers write in one run
MaxRecords == 4
\* records per log segment: the 500 of `cnt // 500`, scaled down
RecordsPerFile == 2
\* most records of the constants file
MaxFileRecords == 2
\* threads of a block: the 256 of `threads_per_block = 256`, scaled down
ThreadsPerBlock == 2

(***************************************************************************)
(* Constant registry: ConstantsManager.constants, in load order. A value   *)
(* is the rational n/d; dimensions are [kg, m, s, A, K, mol, cd].          *)
(***************************************************************************)
NUM_DIMENSIONS == 7

\* min_consts, max_consts of the producer's generate_random_batch call
min_consts == 3
max_consts == 6

Registry ==
  << [symbol |-> "two",  n |-> 2, d |-> 1, dimensions |-> <<0, 0, 0, 0, 0, 0, 0>>],
     [symbol |-> "half", n |-> 1, d |-> 2, dimensions |-> <<0, 0, 0, 0, 0, 0, 0>>],
     [symbol |-> "c",    n |-> 4, d |-> 1, dimensions |-> <<0, 1, -1, 0, 0, 0, 0>>],
     [symbol |-> "G",    n |-> 3, d |-> 1, dimensions |-> <<-1, 3, -2, 0, 0, 0, 0>>] >>

\* operator token codes
OP_ADD == -1
OP_SUB == -2
OP_MUL == -3
OP_DIV == -4
OP_POW == -5

\* EquationGenerator.__init__
const_ids == 1..Len(Registry)
op_ids == {OP_ADD, OP_SUB, OP_MUL, OP_DIV, OP_POW}
simple_const_ids ==
  {i \in const_ids : Registry[i].symbol \in {"one", "two", "half", "three", "pi", "alpha"}}

VARIABLES
  \* ---- EquationGenerator._generate_random_rpn ----
  g_pc,            \* "idle" | "loop" | "returned" | "raised"
  num_constants,   \* the argument of the call in progress
  rpn,             \* the token list built so far
  stack_size,
  consts_left,
  ops_left,
  \* ---- EquationGenerator.generate_random_batch ----
  b_pc,            \* "idle" | "loop" | "returned"
  batch_size,      \* the arguments of the call in progress
  b_min_consts,
  b_max_consts,
  batch_len,       \* len(batch)
  \* ---- pipeline: main, producer_task, consumer_task ----
  q,               \* q[c]: items of the mp.Queue of consumer c, oldest first
  unprocessed,     \* unprocessed[c]: batches put on q[c] and not yet processed
  p_pc,            \* producer_task position
  p_obs,           \* p_obs[c]: the qsize() read for q[c] in this iteration
  p_has,           \* p_has[c]: the partition of raw_batch for c is non-empty
  c_pc,            \* c_pc[c]: consumer_task position
  m_pc,            \* main position
  sigint,          \* "none", or whom the operator's SIGINT was sent to: "main" | "group"
  \* ---- consumer_task: the matches loop with is_valid_discovery ----
  seen_clusters,          \* keys of the Manager dict seen_clusters
  f_pc,                   \* f_pc[c]: position of consumer c in the matches loop
  f_left,                 \* f_left[c]: matches of the batch not yet filtered
  f_sig,                  \* f_sig[c]: cluster_signature of the call in progress
  f_target,        \* per consumer: the target_symbol of the call in progress, "none" outside
  f_valid,                \* f_valid[c]: len(valid), the matches of the batch accepted so far
  f_dup,                  \* history, per consumer: the signature of its current or last call had been accepted before the call began
  f_result,               \* history, per consumer: "none" while a call runs, "True", or the path that returned False
  returned_true,          \* history: per signature, the calls that returned True
  \* ---- consumer_task: the write loop over `valid` ----
  total_records_written,  \* log_state['total_records_written']
  files,                  \* files[f_idx]: lines of the log segment, if it exists
  w_pc,                   \* w_pc[c]: position of consumer c in the write loop
  w_left,                 \* w_left[c]: matches of `valid` not yet written
  w_cnt,                  \* w_cnt[c]: the local cnt
  w_mode,                 \* w_mode[c]: the local mode, "a" or "w"
  appended,               \* history: number of records written to the log so far
  \* ---- evaluate_equations: one lane ----
  k_pc,            \* "fetch" | "score" | "returned" | "unmodelled"
  k_row,           \* the tokens rpn[0..i) read so far
  value_stack,     \* value_stack[1..value_sp]
  dim_stack,       \* the dimension vectors below dim_sp
  k_match,         \* 0, or 1 + the target index i written to the results buffer
  k_events,        \* history: the operators of the row that were skipped, by cause
  \* ---- one launch: the lanes, the results buffer, the host ----
  l_pc,            \* per lane: "eval" | "guard" | "write_eq" | "write_target" | "returned"
  l_target,        \* per lane: the target index i of its match
  result_idx,      \* per lane: what atomicAdd returned (-1 before)
  results,         \* the int64 buffer: results[0] the counter, then (eq_idx, target) pairs
  written,         \* history: buffer indices a lane stored to
  out_of_bounds,   \* history: a lane stored outside the buffer
  h_pc,            \* host: "launched" | "synced" | "read"
  results_host,    \* the host copy of the buffer
  potential_matches, \* the (eq_idx, target_idx) pairs the host decoded
  \* ---- is_valid_discovery, steps 1 and 2, for one call ----
  s_pc,            \* "idle" | "check_target" | "base" | "loop" | "passed" | "returned_false"
  target_symbol,
  unique_symbols,  \* the symbols of unique_const_ids
  s_todo,          \* the part of unique_const_ids the loop has not reached
  perturbed,       \* history: the symbols whose value was multiplied by 1.05
  new_result,      \* what the last perturbed evaluation returned, by kind; "none" before
  \* ---- a matched row on its way to is_valid_discovery ----
  equation_rpn,    \* match['equation_rpn'], a string: the sequence of its characters
  c_rpn,           \* the list `rpn` the consumer parses from it
  c_ok,            \* the consumer's flag `ok`
  \* ---- the rows of one batch: producer_task to process_batch ----
  pr_pc,           \* "generate" | "partition" | "put_std" | "put_grav" | "sent"
  raw_batch,       \* the generated expressions
  part_i,          \* how many of them the partition loop has handled
  std,             \* the two partitions
  grav,
  sent_std,        \* the batch put on queue_standard, <<>> if none was put
  sent_grav,       \* the batch put on queue_gravity, <<>> if none was put
  rd,              \* the row process_batch reads: <<>> or <<a record>>
  \* ---- startup: main up to the start of the workers ----
  st_pc,           \* "idle" | "open" | "records" | "clean" | "manager" | "queues" | "create" | "start" | "started" | "aborted"
  constants_db,    \* the file at config['paths']['constants_db']
  raw_left,        \* the records of raw_constants the loop has not reached
  st_constants,    \* self._constants
  st_raised,       \* the exception that left ConstantsManager, "none" if none
  output_files,    \* the file names in the directory output/
  output_at_start, \* history: output_files when main was entered
  shared_dicts,    \* the Manager dicts main created
  st_queues,       \* the queues main created
  st_created,      \* the Process objects main created
  st_started,      \* the workers main started
  \* ---- run configuration: what main and the workers take from config ----
  config,          \* config.yaml as loaded by main
  cfg_pc,          \* "init" | "loaded" | "started"
  in_effect,       \* the values the workers run with, 0 or NotSet while not set
  \* ---- the launch geometry of one process_batch call ----
  num_equations,   \* len(equations_rpn_list), 0 before the launch
  entered,         \* the lanes that passed the guard and read their row
  reported,        \* the lanes that claimed a slot of the results buffer
  \* ---- the host's filter loop in process_batch ----
  hp_equations,        \* equations_rpn_list of the call, <<>> outside a call
  hp_left,             \* entries of the results buffer the loop has not decoded
  interesting_matches, \* the list the call returns
  \* ---- one batch's matches in consumer_task ----
  matches,             \* the list process_batch returned, after the sort
  outcomes,            \* what became of each match the loop has been through
  o_pc,                \* where the consumer is in the loop over matches
  order_seen           \* the signatures in seen_clusters

gen_vars ==
  <<g_pc, num_constants, rpn, stack_size, consts_left, ops_left,
    b_pc, batch_size, b_min_consts, b_max_consts, batch_len>>

pipe_vars == <<q, unprocessed, p_pc, p_obs, p_has, c_pc, m_pc>>
stop_vars == <<sigint>>

filter_vars ==
  <<seen_clusters, f_pc, f_left, f_sig, f_target, f_valid, f_dup, f_result, returned_true>>

log_vars == <<total_records_written, files, w_pc, w_left, w_cnt, w_mode, appended>>

render_vars == <<equation_rpn, c_rpn, c_ok>>
kernel_vars == <<k_pc, k_row, value_stack, dim_stack, k_match, k_events, render_vars>>
grid_vars == <<l_pc, l_target, result_idx, results, written, out_of_bounds,
               h_pc, results_host, potential_matches>>

sens_vars == <<s_pc, target_symbol, unique_symbols, s_todo, perturbed, new_result>>
rows_vars == <<pr_pc, raw_batch, part_i, std, grav, sent_std, sent_grav, rd>>
start_vars ==
  <<st_pc, constants_db, raw_left, st_constants, st_raised, output_files,
    output_at_start, shared_dicts, st_queues, st_created, st_started>>
config_vars == <<config, cfg_pc, in_effect>>
launch_vars == <<num_equations, entered, reported>>
host_vars == <<hp_equations, hp_left, interesting_matches>>
order_vars == <<matches, outcomes, o_pc, order_seen>>

vars ==
  <<gen_vars, pipe_vars, stop_vars, filter_vars, log_vars, kernel_vars, grid_vars,
    rows_vars, sens_vars, start_vars, config_vars, launch_vars, host_vars,
    order_vars>>

\* what the steps of one subsystem leave alone
not_gen_vars == <<pipe_vars, filter_vars, log_vars, kernel_vars, grid_vars, stop_vars, rows_vars, sens_vars, start_vars, config_vars, launch_vars, host_vars, order_vars>>
not_pipe_vars == <<gen_vars, filter_vars, log_vars, kernel_vars, grid_vars, stop_vars, rows_vars, sens_vars, start_vars, config_vars, launch_vars, host_vars, order_vars>>
not_filter_vars == <<gen_vars, pipe_vars, log_vars, kernel_vars, grid_vars, stop_vars, rows_vars, sens_vars, start_vars, config_vars, launch_vars, host_vars, order_vars>>
not_log_vars == <<gen_vars, pipe_vars, filter_vars, kernel_vars, grid_vars, stop_vars, rows_vars, sens_vars, start_vars, config_vars, launch_vars, host_vars, order_vars>>
not_grid_vars == <<gen_vars, pipe_vars, filter_vars, log_vars, kernel_vars, stop_vars, rows_vars, sens_vars, start_vars, config_vars, launch_vars, host_vars, order_vars>>
not_stop_vars == <<gen_vars, filter_vars, log_vars, kernel_vars, grid_vars, rows_vars, sens_vars, start_vars, config_vars, launch_vars, host_vars, order_vars>>
not_rows_vars ==
  <<gen_vars, pipe_vars, filter_vars, log_vars, kernel_vars, grid_vars, stop_vars,
    sens_vars, start_vars, config_vars, launch_vars, host_vars, order_vars>>
not_sens_vars ==
  <<gen_vars, pipe_vars, filter_vars, log_vars, kernel_vars, grid_vars, stop_vars,
    rows_vars, start_vars, config_vars, launch_vars, host_vars, order_vars>>
not_start_vars ==
  <<gen_vars, pipe_vars, filter_vars, log_vars, kernel_vars, grid_vars, stop_vars,
    rows_vars, sens_vars, config_vars, launch_vars, host_vars, order_vars>>
not_config_vars ==
  <<gen_vars, pipe_vars, filter_vars, log_vars, kernel_vars, grid_vars, stop_vars,
    rows_vars, sens_vars, start_vars, launch_vars, host_vars, order_vars>>
not_launch_vars ==
  <<gen_vars, pipe_vars, filter_vars, log_vars, kernel_vars, grid_vars, stop_vars,
    rows_vars, sens_vars, start_vars, config_vars, host_vars, order_vars>>
not_host_vars ==
  <<gen_vars, pipe_vars, filter_vars, log_vars, kernel_vars, grid_vars, stop_vars,
    rows_vars, sens_vars, start_vars, config_vars, launch_vars, order_vars>>
not_order_vars ==
  <<gen_vars, pipe_vars, filter_vars, log_vars, kernel_vars, grid_vars, stop_vars,
    rows_vars, sens_vars, start_vars, config_vars, launch_vars, host_vars>>
not_kernel_vars == <<gen_vars, pipe_vars, filter_vars, log_vars, grid_vars, stop_vars, rows_vars, sens_vars, start_vars, config_vars, launch_vars, host_vars, order_vars>>

(***************************************************************************)
(* Expression generator                                                    *)
(***************************************************************************)
InitGen ==
  /\ g_pc = "idle"
  /\ num_constants = 0
  /\ rpn = <<>>
  /\ stack_size = 0
  /\ consts_left = 0
  /\ ops_left = 0
  /\ b_pc = "idle"
  /\ batch_size = 0
  /\ b_min_consts = 0
  /\ b_max_consts = 0
  /\ batch_len = 0

walk_vars == <<g_pc, num_constants, rpn, stack_size, consts_left, ops_left>>
batch_vars == <<b_pc, batch_size, b_min_consts, b_max_consts, batch_len>>

\* generate_random_batch(batch_size, min_consts, max_consts) is entered: with
\* the producer's arguments, or with min_consts = 1; max_consts is capped
BatchCall ==
  /\ b_pc = "idle"
  /\ g_pc = "idle"
  /\ \E bs \in {0, MaxBatch}, lo \in {1, min_consts} :
       /\ batch_size' = bs
       /\ b_min_consts' = lo
       /\ b_max_consts' = IF max_consts < MaxOperands THEN max_consts ELSE MaxOperands
  /\ batch_len' = 0
  /\ b_pc' = "loop"
  /\ UNCHANGED walk_vars

\* n_c = random.randint(min_consts, max_consts)
RandIntFromOne(lo, hi) == 1..hi

RandInt(lo, hi) == lo..hi

\* the list `choices` built in one iteration of the while loop
ChoicesNoDepthGuard(cl, ol, ss) ==
  LET c1 == IF cl > 0 THEN {"CONST"} ELSE {}
      c2 == IF ol > 0 /\ ss >= 1
              THEN (IF cl = 0 THEN {"OP"} ELSE c1 \cup {"OP"})
              ELSE c1
  IN  c2

Choices(cl, ol, ss) ==
  LET c1 == IF cl > 0 THEN {"CONST"} ELSE {}
      c2 == IF ol > 0 /\ ss >= 2
              THEN (IF cl = 0 THEN {"OP"} ELSE c1 \cup {"OP"})
              ELSE c1
      c3 == IF ss < 2 /\ "OP" \in c2 /\ "CONST" \in c2 THEN {"CONST"} ELSE c2
  IN  c3

\* generate_random_batch calls _generate_random_rpn(n_c); n == 1 returns at once
GenCall ==
  /\ g_pc = "idle"
  /\ b_pc = "loop"
  /\ batch_len < batch_size
  /\ UNCHANGED batch_vars
  /\ \E n \in RandInt(b_min_consts, b_max_consts) :
       /\ num_constants' = n
       /\ IF n = 1
            THEN /\ \E cid \in const_ids : rpn' = <<cid>>
                 /\ g_pc' = "returned"
                 /\ UNCHANGED <<stack_size, consts_left, ops_left>>
            ELSE /\ rpn' = <<>>
                 /\ stack_size' = 0
                 /\ consts_left' = n
                 /\ ops_left' = n - 1
                 /\ g_pc' = "loop"

\* one iteration of the while loop that picks 'CONST'
GenPickConst ==
  /\ g_pc = "loop"
  /\ consts_left > 0 \/ ops_left > 0
  /\ "CONST" \in Choices(consts_left, ops_left, stack_size)
  /\ \E cid \in simple_const_ids \cup const_ids :
       rpn' = Append(rpn, cid)
  /\ stack_size' = stack_size + 1
  /\ consts_left' = consts_left - 1
  /\ UNCHANGED <<g_pc, num_constants, ops_left>>
  /\ UNCHANGED batch_vars

\* one iteration of the while loop that picks 'OP'
GenPickOp ==
  /\ g_pc = "loop"
  /\ consts_left > 0 \/ ops_left > 0
  /\ "OP" \in Choices(consts_left, ops_left, stack_size)
  /\ \E oid \in op_ids : rpn' = Append(rpn, oid)
  /\ stack_size' = stack_size - 1
  /\ ops_left' = ops_left - 1
  /\ UNCHANGED <<g_pc, num_constants, consts_left>>
  /\ UNCHANGED batch_vars

\* the loop condition fails: return rpn; random.choice([]) raises IndexError
GenReturn ==
  /\ g_pc = "loop"
  /\ IF consts_left > 0 \/ ops_left > 0
       THEN /\ Choices(consts_left, ops_left, stack_size) = {}
            /\ g_pc' = "raised"
       ELSE g_pc' = "returned"
  /\ UNCHANGED <<num_constants, rpn, stack_size, consts_left, ops_left>>
  /\ UNCHANGED batch_vars

\* batch.append(eq): the caller takes the expression; the next call starts afresh
GenNext ==
  /\ g_pc = "returned"
  /\ g_pc' = "idle"
  /\ num_constants' = 0
  /\ rpn' = <<>>
  /\ stack_size' = 0
  /\ consts_left' = 0
  /\ ops_left' = 0
  /\ batch_len' = batch_len + 1
  /\ UNCHANGED <<b_pc, batch_size, b_min_consts, b_max_consts>>

\* the for loop is exhausted: return batch
BatchReturn ==
  /\ b_pc = "loop"
  /\ g_pc = "idle"
  /\ batch_len >= batch_size
  /\ b_pc' = "returned"
  /\ UNCHANGED <<walk_vars, batch_size, b_min_consts, b_max_consts, batch_len>>

\* the caller takes the batch
BatchNext ==
  /\ b_pc = "returned"
  /\ b_pc' = "idle"
  /\ batch_size' = 0
  /\ b_min_consts' = 0
  /\ b_max_consts' = 0
  /\ batch_len' = 0
  /\ UNCHANGED walk_vars


(***************************************************************************)
(* Pipeline: main starts one producer and two consumers. In this           *)
(* specification a consumer handles a dequeued batch in one step; the      *)
(* steps inside that handling are the subject of SpecLog.                  *)
(***************************************************************************)
Consumers == {"Standard", "Gravity"}

\* mp.Queue(maxsize=5)
QUEUE_MAXSIZE == 5
\* the producer's threshold in `qsize() > 4`
QSIZE_LIMIT == 4

\* queue items: a padded batch, or the sentinel None
BATCH == 1
None == 0

InitPipe ==
  /\ q = [c \in Consumers |-> <<>>]
  /\ unprocessed = [c \in Consumers |-> 0]
  /\ p_pc = "not_started"
  /\ p_obs = [c \in Consumers |-> 0]
  /\ p_has = [c \in Consumers |-> FALSE]
  /\ c_pc = [c \in Consumers |-> "not_started"]
  /\ m_pc = "init"

\* `queue.qsize() > 4`
QsizeTooLargeOffByOne(n) == n > QSIZE_LIMIT + 1

QsizeTooLarge(n) == n > QSIZE_LIMIT

\* Queue.put blocks while the queue holds maxsize items
PutEnabled(c) == Len(q[c]) < QUEUE_MAXSIZE

\* the item Queue.get returns, and what it leaves on the queue
QueueFrontLifo(s) == [item |-> s[Len(s)], rest |-> SubSeq(s, 1, Len(s) - 1)]

QueueFront(s) == [item |-> Head(s), rest |-> Tail(s)]

\* pro.start(); con_std.start(); con_grav.start()
MainStart ==
  /\ m_pc = "init"
  /\ m_pc' = "join_pro"
  /\ p_pc' = "check_std"
  /\ c_pc' = [c \in Consumers |-> "engine_init"]
  /\ UNCHANGED <<q, unprocessed, p_obs, p_has>>

Terminated(pc) == pc \in {"done", "crashed", "quit", "interrupted", "terminated"}

\* pro.join(); con_std.join(); con_grav.join()
MainJoin ==
  /\ \/ m_pc = "join_pro" /\ Terminated(p_pc) /\ m_pc' = "join_std"
     \/ m_pc = "join_std" /\ Terminated(c_pc["Standard"]) /\ m_pc' = "join_grav"
     \/ m_pc = "join_grav" /\ Terminated(c_pc["Gravity"]) /\ m_pc' = "ended"
  /\ UNCHANGED <<q, unprocessed, p_pc, p_obs, p_has, c_pc>>

\* `if queue_standard.qsize() > 4 or ...`
ProducerCheckStd ==
  /\ p_pc = "check_std"
  /\ p_obs' = [p_obs EXCEPT !["Standard"] = Len(q["Standard"])]
  /\ p_pc' = IF QsizeTooLarge(Len(q["Standard"])) THEN "sleep" ELSE "check_grav"
  /\ UNCHANGED <<q, unprocessed, p_has, c_pc, m_pc>>

\* `... or queue_gravity.qsize() > 4`
ProducerCheckGrav ==
  /\ p_pc = "check_grav"
  /\ p_obs' = [p_obs EXCEPT !["Gravity"] = Len(q["Gravity"])]
  /\ p_pc' = IF QsizeTooLarge(Len(q["Gravity"])) THEN "sleep" ELSE "generate"
  /\ UNCHANGED <<q, unprocessed, p_has, c_pc, m_pc>>

\* time.sleep(1.0); continue
ProducerSleep ==
  /\ p_pc = "sleep"
  /\ p_pc' = "check_std"
  /\ p_obs' = [c \in Consumers |-> 0]
  /\ UNCHANGED <<q, unprocessed, p_has, c_pc, m_pc>>

\* generate_random_batch and the partition by g_tok; raw_batch is not empty
ProducerGenerate(hs, hg) ==
  /\ p_pc = "generate"
  /\ hs \/ hg
  /\ p_has' = [c \in Consumers |-> IF c = "Standard" THEN hs ELSE hg]
  /\ p_pc' = IF hs THEN "put_std" ELSE "put_grav"
  /\ UNCHANGED <<q, unprocessed, p_obs, c_pc, m_pc>>

\* `if std: queue_standard.put(...)`
ProducerPutStd ==
  /\ p_pc = "put_std"
  /\ PutEnabled("Standard")
  /\ q' = [q EXCEPT !["Standard"] = Append(@, BATCH)]
  /\ unprocessed' = [unprocessed EXCEPT !["Standard"] = @ + 1]
  /\ p_pc' = IF p_has["Gravity"] THEN "put_grav" ELSE "pause"
  /\ UNCHANGED <<p_obs, p_has, c_pc, m_pc>>

\* `if grav: queue_gravity.put(...)`
ProducerPutGrav ==
  /\ p_pc = "put_grav"
  /\ PutEnabled("Gravity")
  /\ q' = [q EXCEPT !["Gravity"] = Append(@, BATCH)]
  /\ unprocessed' = [unprocessed EXCEPT !["Gravity"] = @ + 1]
  /\ p_pc' = "pause"
  /\ UNCHANGED <<p_obs, p_has, c_pc, m_pc>>

\* time.sleep(0.02), then the next iteration
ProducerPause ==
  /\ p_pc = "pause"
  /\ p_pc' = "check_std"
  /\ p_has' = [c \in Consumers |-> FALSE]
  /\ p_obs' = [c \in Consumers |-> 0]
  /\ UNCHANGED <<q, unprocessed, c_pc, m_pc>>

InLoop(pc) ==
  pc \in {"check_std", "check_grav", "sleep", "generate", "put_std", "put_grav", "pause"}

\* an exception inside the try block: control goes to the finally clause
ProducerRaise ==
  /\ InLoop(p_pc)
  /\ p_pc' = "fin_std"
  /\ p_has' = [c \in Consumers |-> FALSE]
  /\ p_obs' = [c \in Consumers |-> 0]
  /\ UNCHANGED <<q, unprocessed, c_pc, m_pc>>

\* finally: queue_standard.put(None)
ProducerFinStd ==
  /\ p_pc = "fin_std"
  /\ PutEnabled("Standard")
  /\ q' = [q EXCEPT !["Standard"] = Append(@, None)]
  /\ p_pc' = "fin_grav"
  /\ UNCHANGED <<unprocessed, p_obs, p_has, c_pc, m_pc>>

\* finally: queue_gravity.put(None)
ProducerFinGrav ==
  /\ p_pc = "fin_grav"
  /\ PutEnabled("Gravity")
  /\ q' = [q EXCEPT !["Gravity"] = Append(@, None)]
  /\ p_pc' = "done"
  /\ UNCHANGED <<unprocessed, p_obs, p_has, c_pc, m_pc>>

\* `try: engine = GpuCalculationEngine(constants)`
ConsumerEngineOk(c) ==
  /\ c_pc[c] = "engine_init"
  /\ c_pc' = [c_pc EXCEPT ![c] = "empty_check"]
  /\ UNCHANGED <<q, unprocessed, p_pc, p_obs, p_has, m_pc>>

\* `except: return`
ConsumerEngineFail(c) ==
  /\ c_pc[c] = "engine_init"
  /\ c_pc' = [c_pc EXCEPT ![c] = "quit"]
  /\ UNCHANGED <<q, unprocessed, p_pc, p_obs, p_has, m_pc>>

\* `if queue.empty(): time.sleep(0.1); continue`
ConsumerEmptyCheck(c) ==
  /\ c_pc[c] = "empty_check"
  /\ c_pc' = [c_pc EXCEPT ![c] = IF q[c] = <<>> THEN "sleep" ELSE "get"]
  /\ UNCHANGED <<q, unprocessed, p_pc, p_obs, p_has, m_pc>>

ConsumerSleep(c) ==
  /\ c_pc[c] = "sleep"
  /\ c_pc' = [c_pc EXCEPT ![c] = "empty_check"]
  /\ UNCHANGED <<q, unprocessed, p_pc, p_obs, p_has, m_pc>>

\* `batch = queue.get(); if batch is None: break`
ConsumerGet(c) ==
  /\ c_pc[c] = "get"
  /\ q[c] # <<>>
  /\ q' = [q EXCEPT ![c] = QueueFront(q[c]).rest]
  /\ c_pc' = [c_pc EXCEPT ![c] =
                IF QueueFront(q[c]).item = None THEN "finish" ELSE "process"]
  /\ UNCHANGED <<unprocessed, p_pc, p_obs, p_has, m_pc>>

\* process_batch, the validity filter and the log writes for one batch
ConsumerProcess(c) ==
  /\ c_pc[c] = "process"
  /\ unprocessed' = [unprocessed EXCEPT ![c] = @ - 1]
  /\ c_pc' = [c_pc EXCEPT ![c] = "pause"]
  /\ UNCHANGED <<q, p_pc, p_obs, p_has, m_pc>>

\* an uncaught exception while a batch is handled ends the process
ConsumerCrash(c) ==
  /\ c_pc[c] = "process"
  /\ c_pc' = [c_pc EXCEPT ![c] = "crashed"]
  /\ UNCHANGED <<q, unprocessed, p_pc, p_obs, p_has, m_pc>>

\* time.sleep(0.05), then the next iteration
ConsumerPause(c) ==
  /\ c_pc[c] = "pause"
  /\ c_pc' = [c_pc EXCEPT ![c] = "empty_check"]
  /\ UNCHANGED <<q, unprocessed, p_pc, p_obs, p_has, m_pc>>

\* after the loop: stats[...] = ..., print, return
ConsumerFinish(c) ==
  /\ c_pc[c] = "finish"
  /\ c_pc' = [c_pc EXCEPT ![c] = "done"]
  /\ UNCHANGED <<q, unprocessed, p_pc, p_obs, p_has, m_pc>>

ProducerStep ==
  \/ ProducerCheckStd \/ ProducerCheckGrav \/ ProducerSleep
  \/ \E hs, hg \in BOOLEAN : ProducerGenerate(hs, hg)
  \/ ProducerPutStd \/ ProducerPutGrav \/ ProducerPause
  \/ ProducerFinStd \/ ProducerFinGrav

ConsumerStep(c) ==
  \/ ConsumerEngineOk(c) \/ ConsumerEmptyCheck(c) \/ ConsumerSleep(c)
  \/ ConsumerGet(c) \/ ConsumerProcess(c) \/ ConsumerPause(c) \/ ConsumerFinish(c)

MainStep == MainStart \/ MainJoin

NextPipe ==
  \/ (MainStart /\ UNCHANGED not_pipe_vars)
  \/ (MainJoin /\ UNCHANGED not_pipe_vars)
  \/ (ProducerCheckStd /\ UNCHANGED not_pipe_vars)
  \/ (ProducerCheckGrav /\ UNCHANGED not_pipe_vars)
  \/ (ProducerSleep /\ UNCHANGED not_pipe_vars)
  \/ (ProducerPutStd /\ UNCHANGED not_pipe_vars)
  \/ (ProducerPutGrav /\ UNCHANGED not_pipe_vars)
  \/ (ProducerPause /\ UNCHANGED not_pipe_vars)
  \/ (ProducerRaise /\ UNCHANGED not_pipe_vars)
  \/ (ProducerFinStd /\ UNCHANGED not_pipe_vars)
  \/ (ProducerFinGrav /\ UNCHANGED not_pipe_vars)
  \/ \E c \in Consumers : ConsumerEngineOk(c) /\ UNCHANGED not_pipe_vars
  \/ \E c \in Consumers : ConsumerEngineFail(c) /\ UNCHANGED not_pipe_vars
  \/ \E c \in Consumers : ConsumerEmptyCheck(c) /\ UNCHANGED not_pipe_vars
  \/ \E c \in Consumers : ConsumerSleep(c) /\ UNCHANGED not_pipe_vars
  \/ \E c \in Consumers : ConsumerGet(c) /\ UNCHANGED not_pipe_vars
  \/ \E c \in Consumers : ConsumerProcess(c) /\ UNCHANGED not_pipe_vars
  \/ \E c \in Consumers : ConsumerCrash(c) /\ UNCHANGED not_pipe_vars
  \/ \E c \in Consumers : ConsumerPause(c) /\ UNCHANGED not_pipe_vars
  \/ \E c \in Consumers : ConsumerFinish(c) /\ UNCHANGED not_pipe_vars
  \/ \E hs, hg \in BOOLEAN : ProducerGenerate(hs, hg) /\ UNCHANGED not_pipe_vars

(***************************************************************************)
(* Operator stop. The only stop request the program knows is Ctrl+C: a     *)
(* SIGINT to main alone (kill -INT) or to the whole foreground process     *)
(* group. Python raises KeyboardInterrupt in a process that receives it;   *)
(* main is inside a join, a worker wherever it happens to be.              *)
(***************************************************************************)
InitStop == sigint = "none"

Running == m_pc \in {"join_pro", "join_std", "join_grav"}

\* KeyboardInterrupt in the producer: `except Exception` does not catch it,
\* the finally clause runs; raised inside the finally clause it ends the process
ProducerInterrupted(pc) ==
  IF Terminated(pc) THEN pc
  ELSE IF InLoop(pc) THEN "fin_std"
  ELSE "interrupted"

\* KeyboardInterrupt in a consumer: the bare `except: return` of the engine
\* construction catches it, nothing else in consumer_task does
ConsumerInterrupted(pc) ==
  IF Terminated(pc) THEN pc
  ELSE IF pc = "engine_init" THEN "quit"
  ELSE "interrupted"

\* The operator requests a stop while the pipeline is running:
\* `except KeyboardInterrupt:` in main, raised out of a join, and with
\* Ctrl+C the same exception in every worker.
OperatorStop(group) ==
  /\ Running
  /\ sigint = "none"
  /\ sigint' = IF group THEN "group" ELSE "main"
  /\ m_pc' = "terminate_pro"
  /\ p_pc' = IF group THEN ProducerInterrupted(p_pc) ELSE p_pc
  /\ c_pc' = [c \in Consumers |-> IF group THEN ConsumerInterrupted(c_pc[c]) ELSE c_pc[c]]
  /\ p_has' = IF group THEN [c \in Consumers |-> FALSE] ELSE p_has
  /\ p_obs' = IF group THEN [c \in Consumers |-> 0] ELSE p_obs
  /\ UNCHANGED <<q, unprocessed>>

KilledNever(pc) == pc

\* Process.terminate(): SIGTERM ends a process that is still running
Killed(pc) == IF Terminated(pc) THEN pc ELSE "terminated"

\* pro.terminate(); con_std.terminate(); con_grav.terminate(); print("Session ended.")
MainTerminate ==
  /\ \/ /\ m_pc = "terminate_pro"
        /\ p_pc' = Killed(p_pc)
        /\ p_obs' = IF Terminated(p_pc) THEN p_obs ELSE [c \in Consumers |-> 0]
        /\ p_has' = IF Terminated(p_pc) THEN p_has ELSE [c \in Consumers |-> FALSE]
        /\ m_pc' = "terminate_std"
        /\ UNCHANGED c_pc
     \/ /\ m_pc = "terminate_std"
        /\ c_pc' = [c_pc EXCEPT !["Standard"] = Killed(@)]
        /\ m_pc' = "terminate_grav"
        /\ UNCHANGED <<p_pc, p_obs, p_has>>
     \/ /\ m_pc = "terminate_grav"
        /\ c_pc' = [c_pc EXCEPT !["Gravity"] = Killed(@)]
        /\ m_pc' = "ended"
        /\ UNCHANGED <<p_pc, p_obs, p_has>>
  /\ UNCHANGED <<q, unprocessed, sigint>>

NextStop ==
  \/ NextPipe
  \/ \E group \in BOOLEAN : OperatorStop(group) /\ UNCHANGED not_stop_vars
  \/ (MainTerminate /\ UNCHANGED not_stop_vars)

(***************************************************************************)
(* Validity filter and log writer, as run by the two consumer processes    *)
(* against the Manager dicts seen_clusters and log_state. Every call on a  *)
(* Manager proxy and every file operation is one step of its process.      *)
(***************************************************************************)
Symbols == {Registry[i].symbol : i \in const_ids}

\* config['engine']['gravity_constant_symbol']
gravity_symbol == "G"

\* {c['symbol']: i+1 for i, c in enumerate(constants)}: a later entry replaces an earlier one
c_lookup ==
  [sym \in Symbols |->
     CHOOSE i \in const_ids :
       /\ Registry[i].symbol = sym
       /\ \A j \in const_ids : Registry[j].symbol = sym => j <= i]

\* the list tested against target_symbol at the top of is_valid_discovery
TrivialTargets ==
  {"one", "two", "three", "half", "pi", "phi", "e_math", "alpha", "sqrt_2", "sqrt_3"}

definition_groups ==
  { {"c", "mu_0", "epsilon_0", "Z_0"},
    {"h", "hbar", "e_charge", "G_0", "R_K", "K_J", "phi_0", "two", "half", "pi"},
    {"k_B", "R", "F", "e_charge", "N_A"},
    {"m_P", "l_P", "t_P", "G", "c", "hbar"},
    {"m_e", "r_e", "alpha", "h", "c", "e_charge", "R_inf", "a_0", "lambda_C",
     "pi", "two", "half"},
    {"mu_B", "e_charge", "h", "m_e", "two", "pi"} }

\* A match handed to is_valid_discovery by consumer c: the symbols of its
\* expression and its target. _is_interesting lets through only expressions
\* with at least two distinct constants that do not contain the target; the
\* producer routes the rows with the gravity token to "Gravity", the others
\* to "Standard".
MatchesOf(c) ==
  {m \in [inputs : SUBSET Symbols, target : Symbols] :
     /\ Cardinality(m.inputs) >= 2
     /\ m.target \notin m.inputs
     /\ (gravity_symbol \in m.inputs) <=> (c = "Gravity")}

\* all_involved / cluster_signature
Signature(m) == m.inputs \cup {m.target}

InAnyGroupOfFour(sig) ==
  \E group \in definition_groups : Cardinality(sig) > 3 /\ sig \subseteq group

\* `if len(all_involved) > 2 and all_involved.issubset(group): return False`
InDefinitionGroup(sig) ==
  \E group \in definition_groups : Cardinality(sig) > 2 /\ sig \subseteq group

\* Steps 1 to 3 of is_valid_discovery. numeric_ok is the outcome of the
\* sensitivity test and of the simplify(expr / target) test, which depend on
\* the expression's arithmetic and not on shared state.
PassesFilters(m, numeric_ok) ==
  /\ m.target \notin TrivialTargets
  /\ numeric_ok
  /\ ~InDefinitionGroup(Signature(m))

RejectingPathNumericFirst(m, numeric_ok) ==
  IF ~numeric_ok THEN "numeric"
  ELSE IF m.target \in TrivialTargets THEN "trivial_target"
  ELSE IF InDefinitionGroup(Signature(m)) THEN "definition"
  ELSE "none"

\* the `return False` that steps 1 to 3 take, "none" if they take none
RejectingPath(m, numeric_ok) ==
  IF m.target \in TrivialTargets THEN "trivial_target"
  ELSE IF ~numeric_ok THEN "numeric"
  ELSE IF InDefinitionGroup(Signature(m)) THEN "definition"
  ELSE "none"

NoSignature == {}

InitFilter ==
  /\ seen_clusters = {}
  /\ f_pc = [c \in Consumers |-> "idle"]
  /\ f_left = [c \in Consumers |-> 0]
  /\ f_sig = [c \in Consumers |-> NoSignature]
  /\ f_target = [c \in Consumers |-> "none"]
  /\ f_valid = [c \in Consumers |-> 0]
  /\ f_dup = [c \in Consumers |-> FALSE]
  /\ f_result = [c \in Consumers |-> "none"]
  /\ returned_true = [sig \in SUBSET Symbols |-> 0]

\* matches = engine.process_batch(batch, ...): n matches to filter; valid = []
FilterBatch(c) ==
  /\ f_pc[c] = "idle"
  /\ \E n \in 1..MaxMatches : f_left' = [f_left EXCEPT ![c] = n]
  /\ f_pc' = [f_pc EXCEPT ![c] = "next_match"]
  /\ f_valid' = [f_valid EXCEPT ![c] = 0]
  /\ UNCHANGED <<seen_clusters, f_sig, f_target, f_dup, f_result, returned_true>>

\* `for match in matches:` the call of is_valid_discovery for match m, up to step 4
FilterCallWith(c, m, numeric_ok) ==
  /\ f_pc[c] = "next_match"
  /\ f_left[c] > 0
  /\ f_left' = [f_left EXCEPT ![c] = @ - 1]
  /\ f_sig' = [f_sig EXCEPT ![c] = Signature(m)]
  /\ f_target' = [f_target EXCEPT ![c] = m.target]
  /\ f_dup' = [f_dup EXCEPT ![c] = returned_true[Signature(m)] > 0]
  /\ f_result' = [f_result EXCEPT ![c] = RejectingPath(m, numeric_ok)]
  /\ IF PassesFilters(m, numeric_ok)
       THEN f_pc' = [f_pc EXCEPT ![c] = "dedup_check"]
       ELSE UNCHANGED f_pc
  /\ UNCHANGED <<seen_clusters, f_valid, returned_true>>

FilterCall(c) ==
  \E m \in MatchesOf(c), numeric_ok \in BOOLEAN : FilterCallWith(c, m, numeric_ok)

InSeenClustersNever(sig, seen) == FALSE

\* `cluster_signature in seen_clusters`
InSeenClusters(sig, seen) == sig \in seen

\* `if cluster_signature in seen_clusters: return False`
FilterDedupCheck(c) ==
  /\ f_pc[c] = "dedup_check"
  /\ IF InSeenClusters(f_sig[c], seen_clusters)
       THEN /\ f_pc' = [f_pc EXCEPT ![c] = "next_match"]
            /\ f_result' = [f_result EXCEPT ![c] = "duplicate"]
       ELSE /\ f_pc' = [f_pc EXCEPT ![c] = "dedup_set"]
            /\ UNCHANGED f_result
  /\ UNCHANGED <<seen_clusters, f_left, f_sig, f_target, f_valid, f_dup, returned_true>>

StoredAlone(seen, sig) == {sig}

\* `seen_clusters[cluster_signature] = True`
Stored(seen, sig) == seen \cup {sig}

\* `seen_clusters[cluster_signature] = True; return True`, `valid.append(match)`
FilterDedupSet(c) ==
  /\ f_pc[c] = "dedup_set"
  /\ seen_clusters' = Stored(seen_clusters, f_sig[c])
  /\ returned_true' = [returned_true EXCEPT ![f_sig[c]] = @ + 1]
  /\ f_valid' = [f_valid EXCEPT ![c] = @ + 1]
  /\ f_result' = [f_result EXCEPT ![c] = "True"]
  /\ f_pc' = [f_pc EXCEPT ![c] = "next_match"]
  /\ UNCHANGED <<f_left, f_sig, f_target, f_dup>>

\* the matches loop is over; the batch ends with the write loop over `valid`
FilterDone(c) ==
  /\ f_pc[c] = "next_match"
  /\ f_left[c] = 0
  /\ f_pc' = [f_pc EXCEPT ![c] = "idle"]
  /\ f_sig' = [f_sig EXCEPT ![c] = NoSignature]
  /\ f_target' = [f_target EXCEPT ![c] = "none"]
  /\ f_dup' = [f_dup EXCEPT ![c] = FALSE]
  /\ f_result' = [f_result EXCEPT ![c] = "none"]
  /\ f_valid' = [f_valid EXCEPT ![c] = 0]
  /\ UNCHANGED <<seen_clusters, f_left, returned_true>>

NextFilter ==
  \/ \E c \in Consumers : FilterBatch(c) /\ UNCHANGED not_filter_vars
  \/ \E c \in Consumers : FilterCall(c) /\ UNCHANGED not_filter_vars
  \/ \E c \in Consumers : FilterDedupCheck(c) /\ UNCHANGED not_filter_vars
  \/ \E c \in Consumers : FilterDedupSet(c) /\ UNCHANGED not_filter_vars
  \/ \E c \in Consumers : FilterDone(c) /\ UNCHANGED not_filter_vars

(***************************************************************************)
(* The write loop `for m in valid:` of the two consumers. How many matches *)
(* a batch leaves in `valid` is decided by the filter; here it is any      *)
(* number from 1 to MaxMatches.                                            *)
(***************************************************************************)
InitLog ==
  /\ total_records_written = 0
  /\ files = <<>>
  /\ w_pc = [c \in Consumers |-> "idle"]
  /\ w_left = [c \in Consumers |-> 0]
  /\ w_cnt = [c \in Consumers |-> 0]
  /\ w_mode = [c \in Consumers |-> "a"]
  /\ appended = 0

\* records written or about to be written
Committed == appended + w_left["Standard"] + w_left["Gravity"]
              - Cardinality({c \in Consumers : w_pc[c] = "log_inc"})

\* `if valid:` with n matches in valid
LogBatch(c) ==
  /\ w_pc[c] = "idle"
  /\ \E n \in 1..MaxMatches :
       /\ Committed + n <= MaxRecords
       /\ w_left' = [w_left EXCEPT ![c] = n]
  /\ w_pc' = [w_pc EXCEPT ![c] = "log_read"]
  /\ UNCHANGED <<total_records_written, files, w_cnt, w_mode, appended>>

\* `cnt = log_state['total_records_written']`
LogReadCount(c) ==
  /\ w_pc[c] = "log_read"
  /\ w_cnt' = [w_cnt EXCEPT ![c] = total_records_written]
  /\ w_pc' = [w_pc EXCEPT ![c] = "log_exists"]
  /\ UNCHANGED <<total_records_written, files, w_left, w_mode, appended>>

\* `f_idx = (cnt // 500) + 1`
FileIndex(cnt) == (cnt \div RecordsPerFile) + 1

\* `mode = 'a' if os.path.exists(path) else 'w'`
LogExists(c) ==
  /\ w_pc[c] = "log_exists"
  /\ w_mode' = [w_mode EXCEPT ![c] =
                  IF FileIndex(w_cnt[c]) \in DOMAIN files THEN "a" ELSE "w"]
  /\ w_pc' = [w_pc EXCEPT ![c] = "log_open"]
  /\ UNCHANGED <<total_records_written, files, w_left, w_cnt, appended>>

\* open(path, mode): 'w' creates or truncates the file, 'a' creates it if absent
Opened(fs, f_idx, mode) ==
  IF mode = "w" \/ f_idx \notin DOMAIN fs
    THEN [i \in DOMAIN fs \cup {f_idx} |-> IF i = f_idx THEN <<>> ELSE fs[i]]
    ELSE fs

LogOpen(c) ==
  /\ w_pc[c] = "log_open"
  /\ files' = Opened(files, FileIndex(w_cnt[c]), w_mode[c])
  /\ w_pc' = [w_pc EXCEPT ![c] = "log_write"]
  /\ UNCHANGED <<total_records_written, w_left, w_cnt, w_mode, appended>>

\* the line "# Equation Explorer v3.2 ..."
HEADER == [kind |-> "header", p_type |-> "-"]
\* the line "Match (p_type): ..."
Record(c) == [kind |-> "record", p_type |-> c]

\* The buffered text reaches the file when the with-block closes it. An 'a'
\* handle writes at the end of the file; a 'w' handle writes from its own
\* offset 0, over whatever the file holds there by then.
Flushed(old, buf, mode) ==
  IF mode = "a"
    THEN old \o buf
    ELSE buf \o SubSeq(old, Len(buf) + 1, Len(old))

\* `if mode=='w': f.write(header)`, `f.write(record)`, close
LogWrite(c) ==
  /\ w_pc[c] = "log_write"
  /\ LET f_idx == FileIndex(w_cnt[c])
         buf == IF w_mode[c] = "w" THEN <<HEADER, Record(c)>> ELSE <<Record(c)>>
     IN  files' = [files EXCEPT ![f_idx] = Flushed(@, buf, w_mode[c])]
  /\ appended' = appended + 1
  /\ w_pc' = [w_pc EXCEPT ![c] = "log_inc"]
  /\ UNCHANGED <<total_records_written, w_left, w_cnt, w_mode>>

\* `log_state['total_records_written'] = cnt + 1`, then the next m of valid
LogIncrement(c) ==
  /\ w_pc[c] = "log_inc"
  /\ total_records_written' = w_cnt[c] + 1
  /\ w_left' = [w_left EXCEPT ![c] = @ - 1]
  /\ w_pc' = [w_pc EXCEPT ![c] = IF w_left[c] > 1 THEN "log_read" ELSE "idle"]
  /\ UNCHANGED <<files, w_cnt, w_mode, appended>>

NextLog ==
  \/ \E c \in Consumers : LogBatch(c) /\ UNCHANGED not_log_vars
  \/ \E c \in Consumers : LogReadCount(c) /\ UNCHANGED not_log_vars
  \/ \E c \in Consumers : LogExists(c) /\ UNCHANGED not_log_vars
  \/ \E c \in Consumers : LogOpen(c) /\ UNCHANGED not_log_vars
  \/ \E c \in Consumers : LogWrite(c) /\ UNCHANGED not_log_vars
  \/ \E c \in Consumers : LogIncrement(c) /\ UNCHANGED not_log_vars

(***************************************************************************)
(* GPU kernel, one lane. A double is modelled by the exact rational n/d    *)
(* (d > 0, lowest terms) or by NaN; a row whose arithmetic leaves the      *)
(* rationals of magnitude MaxMag (an infinity, an irrational root, a large *)
(* power) is outside the model and its lane stops as "unmodelled".         *)
(***************************************************************************)
\* capacity of value_stack; dim_stack holds STACK_SIZE * NUM_DIMENSIONS ints
STACK_SIZE == 16

\* LOOSE_TOLERANCE = 0.01 as TOLERANCE_NUM / TOLERANCE_DEN
TOLERANCE_NUM == 1
TOLERANCE_DEN == 100

Abs(x) == IF x < 0 THEN -x ELSE x

RECURSIVE Gcd(_, _)
Gcd(a, b) == IF b = 0 THEN a ELSE Gcd(b, a % b)

NaN == [n |-> 0, d |-> 0]
IsNaN(v) == v.d = 0
Unmodelled == [n |-> 1, d |-> 0]
IsUnmodelled(v) == v.d = 0 /\ v.n = 1

\* the rational n/d in lowest terms, if it is within the model's range
Rat(n, d) ==
  LET g == Gcd(Abs(n), Abs(d))
      sn == IF d < 0 THEN -n ELSE n
  IN  IF Abs(n) \div g > MaxMag \/ Abs(d) \div g > MaxMag
        THEN Unmodelled
        ELSE [n |-> sn \div g, d |-> Abs(d) \div g]

IsInt(v) == v.d = 1
IsZero(v) == v.d # 0 /\ v.n = 0

\* base ** k for an integer k >= 0
RECURSIVE IntPow(_, _)
IntPow(v, k) ==
  IF k = 0 THEN [n |-> 1, d |-> 1]
  ELSE LET r == IntPow(v, k - 1)
       IN  IF IsUnmodelled(r) THEN r ELSE Rat(r.n * v.n, r.d * v.d)

IsSquare(x) == \E r \in 0..MaxMag : r * r = x
Sqrt(x) == CHOOSE r \in 0..MaxMag : r * r = x

\* pow(a_val, b_val) of the C math library
Pow(a, b) ==
  IF IsZero(b) \/ (a.d = 1 /\ a.n = 1) THEN [n |-> 1, d |-> 1]
  ELSE IF IsNaN(a) \/ IsNaN(b) THEN NaN
  ELSE IF IsInt(b) THEN
         (IF b.n > 0 THEN IntPow(a, b.n)
          ELSE IF IsZero(a) THEN Unmodelled
          ELSE IntPow(Rat(a.d, a.n), -b.n))
  ELSE IF a.n < 0 THEN NaN
  ELSE IF b.d = 2 /\ IsSquare(a.n) /\ IsSquare(a.d) THEN
         (LET root == [n |-> Sqrt(a.n), d |-> Sqrt(a.d)]
          IN  IF b.n > 0 THEN IntPow(root, b.n)
              ELSE IF IsZero(a) THEN Unmodelled
              ELSE IntPow(Rat(root.d, root.n), -b.n))
  ELSE Unmodelled

\* result_val of the operator `token` applied to a_val, b_val (b_val # 0 for OP_DIV)
Arith(token, a, b) ==
  IF token = OP_POW THEN Pow(a, b)
  ELSE IF IsNaN(a) \/ IsNaN(b) THEN NaN
  ELSE IF token = OP_ADD THEN Rat(a.n * b.d + b.n * a.d, a.d * b.d)
  ELSE IF token = OP_SUB THEN Rat(a.n * b.d - b.n * a.d, a.d * b.d)
  ELSE IF token = OP_MUL THEN Rat(a.n * b.n, a.d * b.d)
  ELSE Rat(a.n * b.d, a.d * b.n)

Dims == 1..NUM_DIMENSIONS

\* (int)round(x * n/d): round half away from zero. The conversion of NaN
\* to int is undefined: KernelOperator stops modelling the lane there and
\* does not use the value given here.
RoundScaled(x, v) ==
  IF IsNaN(v) THEN 0
  ELSE LET num == x * v.n
           half_up == (2 * Abs(num) + v.d) \div (2 * v.d)
       IN  IF num < 0 THEN -half_up ELSE half_up

perform_dim_op_div_adds(op, a, b, b_val) ==
  IF op \in {OP_ADD, OP_SUB} THEN
       IF \E i \in Dims : a[i] # b[i]
         THEN [ok |-> FALSE, dim |-> a]
         ELSE [ok |-> TRUE, dim |-> a]
  ELSE IF op = OP_POW THEN
       IF \E i \in Dims : b[i] # 0
         THEN [ok |-> FALSE, dim |-> a]
         ELSE [ok |-> TRUE, dim |-> [i \in Dims |-> RoundScaled(a[i], b_val)]]
  ELSE [ok |-> TRUE, dim |-> [i \in Dims |-> a[i] + b[i]]]

\* perform_dim_op: [ok |-> the returned bool, dim |-> result]
perform_dim_op(op, a, b, b_val) ==
  IF op \in {OP_ADD, OP_SUB} THEN
       IF \E i \in Dims : a[i] # b[i]
         THEN [ok |-> FALSE, dim |-> a]
         ELSE [ok |-> TRUE, dim |-> a]
  ELSE IF op = OP_POW THEN
       IF \E i \in Dims : b[i] # 0
         THEN [ok |-> FALSE, dim |-> a]
         ELSE [ok |-> TRUE, dim |-> [i \in Dims |-> RoundScaled(a[i], b_val)]]
  ELSE IF op = OP_MUL THEN [ok |-> TRUE, dim |-> [i \in Dims |-> a[i] + b[i]]]
  ELSE [ok |-> TRUE, dim |-> [i \in Dims |-> a[i] - b[i]]]

const_vals(token) == [n |-> Registry[token].n, d |-> Registry[token].d]
const_dims(token) == Registry[token].dimensions

InitKernel ==
  /\ k_pc = "fetch"
  /\ k_row = <<>>
  /\ value_stack = <<>>
  /\ dim_stack = <<>>
  /\ k_match = 0
  /\ k_events = {}
  /\ equation_rpn = <<>>
  /\ c_rpn = <<>>
  /\ c_ok = TRUE

value_sp == Len(value_stack)
dim_sp == NUM_DIMENSIONS * Len(dim_stack)

\* simulated operand-stack depth of a token sequence, and its operand count
RECURSIVE RowDepth(_)
RowDepth(s) ==
  IF s = <<>> THEN 0
  ELSE RowDepth(SubSeq(s, 1, Len(s) - 1)) + (IF s[Len(s)] > 0 THEN 1 ELSE -1)

Operands(s) == Cardinality({i \in 1..Len(s) : s[i] > 0})

\* The row is one the producer enqueues: a stack-valid expression of
\* min_consts..MaxOperands constants (then padding). `token` can be its next token.
CanFollow(s, token) ==
  IF token > 0 THEN Operands(s) < MaxOperands ELSE RowDepth(s) >= 2

RowComplete(s) == RowDepth(s) = 1 /\ Operands(s) >= min_consts

PopNone(stack) == stack

\* `--value_sp` twice, `dim_sp -= NUM_DIMENSIONS` twice
Pop2(stack) == SubSeq(stack, 1, Len(stack) - 2)

\* the body of the token loop for a constant token
KernelPush(token) ==
  /\ k_pc = "fetch"
  /\ UNCHANGED render_vars
  /\ CanFollow(k_row, token)
  /\ k_row' = Append(k_row, token)
  /\ value_stack' = Append(value_stack, const_vals(token))
  /\ dim_stack' = Append(dim_stack, const_dims(token))
  /\ UNCHANGED <<k_pc, k_match, k_events>>

\* the body of the token loop for an operator token
KernelOperator(token) ==
  /\ k_pc = "fetch"
  /\ UNCHANGED render_vars
  /\ CanFollow(k_row, token)
  /\ k_row' = Append(k_row, token)
  /\ IF value_sp < 2
       THEN \* `if (value_sp < 2) continue;`
            /\ k_events' = k_events \cup {"underflow"}
            /\ UNCHANGED <<k_pc, value_stack, dim_stack, k_match>>
       ELSE LET b_val == value_stack[value_sp]
                a_val == value_stack[value_sp - 1]
                b_dim == dim_stack[value_sp]
                a_dim == dim_stack[value_sp - 1]
                res == perform_dim_op(token, a_dim, b_dim, b_val)
                result_val == Arith(token, a_val, b_val)
            IN  IF token = OP_POW /\ res.ok /\ IsNaN(b_val)
                  THEN \* (int)round(NaN)
                       /\ k_pc' = "unmodelled"
                       /\ UNCHANGED <<value_stack, dim_stack, k_match, k_events>>
                ELSE IF ~res.ok
                  THEN \* `if (!perform_dim_op(...)) continue;` after both pops
                       /\ value_stack' = Pop2(value_stack)
                       /\ dim_stack' = Pop2(dim_stack)
                       /\ k_events' = k_events \cup
                            {IF token = OP_POW THEN "pow_dimension" ELSE "addsub_mismatch"}
                       /\ UNCHANGED <<k_pc, k_match>>
                ELSE IF token = OP_DIV /\ IsZero(b_val)
                  THEN \* `if (b_val == 0) continue;`
                       /\ value_stack' = Pop2(value_stack)
                       /\ dim_stack' = Pop2(dim_stack)
                       /\ k_events' = k_events \cup {"div_zero"}
                       /\ UNCHANGED <<k_pc, k_match>>
                ELSE IF IsUnmodelled(result_val)
                  THEN /\ k_pc' = "unmodelled"
                       /\ UNCHANGED <<value_stack, dim_stack, k_match, k_events>>
                ELSE /\ value_stack' = Append(Pop2(value_stack), result_val)
                     /\ dim_stack' = Append(Pop2(dim_stack), res.dim)
                     /\ UNCHANGED <<k_pc, k_match, k_events>>

\* the token loop ends: i == max_eq_len, or the padding token 0
KernelEndOfRow ==
  /\ k_pc = "fetch"
  /\ RowComplete(k_row)
  /\ k_pc' = "score"
  /\ UNCHANGED <<k_row, value_stack, dim_stack, k_match, k_events, render_vars>>

\* `target_val != 0 && abs(final_value - target_val) / abs(target_val) < tolerance`
WithinTolerance(v, t) ==
  /\ ~IsNaN(v)
  /\ t.n # 0
  /\ TOLERANCE_DEN * Abs(v.n * t.d - t.n * v.d) < TOLERANCE_NUM * v.d * Abs(t.n)

TargetHitsValueOnly(final_value, final_dim) ==
  {i \in const_ids : WithinTolerance(final_value, const_vals(i))}

\* the targets loop: the target indices i (1-based here) that pass both tests
TargetHits(final_value, final_dim) ==
  {i \in const_ids :
     /\ \A d \in Dims : final_dim[d] = const_dims(i)[d]
     /\ WithinTolerance(final_value, const_vals(i))}

Min(S) == CHOOSE x \in S : \A y \in S : x <= y

\* `if (value_sp != 1) return;` and the targets loop with its first hit
KernelScore ==
  /\ k_pc = "score"
  /\ k_pc' = "returned"
  /\ k_match' = IF value_sp # 1 THEN 0
                ELSE LET hits == TargetHits(value_stack[1], dim_stack[1])
                     IN  IF hits = {} THEN 0 ELSE Min(hits)
  /\ UNCHANGED <<k_row, value_stack, dim_stack, k_events, render_vars>>

(***************************************************************************)
(* A matched row is rendered by process_batch to the string                *)
(* match['equation_rpn'] and parsed back by consumer_task. A string is the *)
(* sequence of its characters.                                             *)
(***************************************************************************)
\* the characters of the registry's symbols
Text ==
  [two |-> <<"t", "w", "o">>, half |-> <<"h", "a", "l", "f">>, c |-> <<"c">>, G |-> <<"G">>]

\* process_batch: op_map.get(str(t), "?")
op_map_host(t) ==
  CASE t = -1 -> <<"+">>
    [] t = -2 -> <<"-">>
    [] t = -3 -> <<"*">>
    [] t = -4 -> <<"/">>
    [] t = -5 -> <<"^">>
    [] OTHER -> <<"?">>

\* `[self.constants[t-1]['symbol'] if t > 0 else op_map.get(str(t), "?") for t in rpn_int]`
rpn_str(rpn_int) ==
  [k \in 1..Len(rpn_int) |->
     IF rpn_int[k] > 0 THEN Text[Registry[rpn_int[k]].symbol] ELSE op_map_host(rpn_int[k])]

\* `' '.join(rpn_str)`
RECURSIVE Join(_)
Join(strs) ==
  IF strs = <<>> THEN <<>>
  ELSE IF Len(strs) = 1 THEN strs[1]
  ELSE Join(SubSeq(strs, 1, Len(strs) - 1)) \o <<" ">> \o strs[Len(strs)]

\* `match['equation_rpn'].split(' ')`
RECURSIVE Split(_)
Split(str) ==
  IF \A k \in 1..Len(str) : str[k] # " " THEN <<str>>
  ELSE LET k == CHOOSE k \in 1..Len(str) :
                  str[k] = " " /\ \A j \in 1..(k - 1) : str[j] # " "
       IN  <<SubSeq(str, 1, k - 1)>> \o Split(SubSeq(str, k + 1, Len(str)))

op_map_shifted ==
  [p \in {<<"+">>, <<"-">>, <<"*">>, <<"/">>, <<"^">>} |->
     CASE p = <<"+">> -> -2
       [] p = <<"-">> -> -3
       [] p = <<"*">> -> -4
       [] p = <<"/">> -> -5
       [] p = <<"^">> -> -1]

\* consumer_task: op_map = {'+':-1, '-':-2, '*':-3, '/':-4, '^':-5}
op_map ==
  [p \in {<<"+">>, <<"-">>, <<"*">>, <<"/">>, <<"^">>} |->
     CASE p = <<"+">> -> -1
       [] p = <<"-">> -> -2
       [] p = <<"*">> -> -3
       [] p = <<"/">> -> -4
       [] p = <<"^">> -> -5]

\* `p in c_lookup` and `c_lookup[p]` for a string given by its characters
InLookup(p) == \E sym \in DOMAIN c_lookup : Text[sym] = p
Lookup(p) == c_lookup[CHOOSE sym \in DOMAIN c_lookup : Text[sym] = p]

\* the loop `for p in parts`: [ok, rpn] after the parts
RECURSIVE ParseParts(_)
ParseParts(parts) ==
  IF parts = <<>> THEN [ok |-> TRUE, rpn |-> <<>>]
  ELSE LET before == ParseParts(SubSeq(parts, 1, Len(parts) - 1))
           p == parts[Len(parts)]
       IN  IF ~before.ok THEN before
           ELSE IF p \in DOMAIN op_map THEN [ok |-> TRUE, rpn |-> Append(before.rpn, op_map[p])]
           ELSE IF InLookup(p) THEN [ok |-> TRUE, rpn |-> Append(before.rpn, Lookup(p))]
           ELSE [ok |-> FALSE, rpn |-> before.rpn]

\* process_batch builds the match of a row the kernel reported
HostRender ==
  /\ k_pc = "returned"
  /\ k_match > 0
  /\ equation_rpn' = Join(rpn_str(k_row))
  /\ k_pc' = "rendered"
  /\ UNCHANGED <<k_row, value_stack, dim_stack, k_match, k_events, c_rpn, c_ok>>

\* consumer_task parses match['equation_rpn'] for is_valid_discovery
ConsumerParse ==
  /\ k_pc = "rendered"
  /\ LET parsed == ParseParts(Split(equation_rpn))
     IN  /\ c_rpn' = parsed.rpn
         /\ c_ok' = parsed.ok
  /\ k_pc' = "parsed"
  /\ UNCHANGED <<k_row, value_stack, dim_stack, k_match, k_events, equation_rpn>>

NextKernel ==
  \/ \E token \in const_ids : KernelPush(token) /\ UNCHANGED not_kernel_vars
  \/ \E token \in op_ids : KernelOperator(token) /\ UNCHANGED not_kernel_vars
  \/ (KernelEndOfRow /\ UNCHANGED not_kernel_vars)
  \/ (KernelScore /\ UNCHANGED not_kernel_vars)
  \/ (HostRender /\ UNCHANGED not_kernel_vars)
  \/ (ConsumerParse /\ UNCHANGED not_kernel_vars)

(***************************************************************************)
(* Host re-evaluation of a reported row, _evaluate_rpn_cpu, on the same    *)
(* rationals. A Python complex result (negative base, fractional exponent) *)
(* is outside the model, like a value out of range.                        *)
(***************************************************************************)
\* the method has executed `return float('nan')`
ReturnedNaN == <<NaN>>
\* the evaluation left the model's numbers
LeftModel == <<Unmodelled>>

\* `a ** b` on Python floats: [raised |-> ZeroDivisionError was raised, val |-> the result]
PyPow(a, b) ==
  IF IsZero(a) /\ b.n < 0 THEN [raised |-> TRUE, val |-> NaN]
  ELSE IF a.n < 0 /\ ~IsInt(b) THEN [raised |-> FALSE, val |-> Unmodelled]
  ELSE [raised |-> FALSE, val |-> Pow(a, b)]

\* the list `stack` after the tokens of rpn_int, or ReturnedNaN, or LeftModel
RECURSIVE CpuStack(_)
CpuStack(rpn_int) ==
  IF rpn_int = <<>> THEN <<>>
  ELSE LET stack == CpuStack(SubSeq(rpn_int, 1, Len(rpn_int) - 1))
           token == rpn_int[Len(rpn_int)]
       IN  IF stack = ReturnedNaN \/ stack = LeftModel THEN stack
           ELSE IF token > 0 THEN Append(stack, const_vals(token))
           ELSE IF Len(stack) < 2 THEN ReturnedNaN
           ELSE LET b == stack[Len(stack)]
                    a == stack[Len(stack) - 1]
                IN  IF token = OP_DIV /\ IsZero(b) THEN ReturnedNaN
                    ELSE IF token = OP_POW /\ PyPow(a, b).raised THEN ReturnedNaN
                    ELSE LET r == IF token = OP_POW THEN PyPow(a, b).val ELSE Arith(token, a, b)
                         IN  IF IsUnmodelled(r) THEN LeftModel
                             ELSE Append(Pop2(stack), r)

\* `return stack[0] if len(stack) == 1 else float('nan')`
evaluate_rpn_cpu(rpn_int) ==
  LET stack == CpuStack(rpn_int)
  IN  IF stack = LeftModel THEN Unmodelled
      ELSE IF stack = ReturnedNaN THEN NaN
      ELSE IF Len(stack) = 1 THEN stack[1] ELSE NaN

(***************************************************************************)
(* The filter's evaluators in main.py: evaluate_rpn_numeric on the same    *)
(* rationals, with values overridden per token, and the expression tree    *)
(* rpn_to_sympy_expression builds (before any simplification by sympy).    *)
(***************************************************************************)
\* `a, b = stack.pop(), stack.pop()`
PopAB(stack) == [a |-> stack[Len(stack)], b |-> stack[Len(stack) - 1]]

\* `b, a = stack.pop(), stack.pop()`
PopBA(stack) == [b |-> stack[Len(stack)], a |-> stack[Len(stack) - 1]]

\* `override_values.get(token, constants_map[token]['value_float'])`
ValueOf(token, override_values) ==
  IF token \in DOMAIN override_values THEN override_values[token]
  ELSE const_vals(token)

\* the list `stack` after the tokens of rpn_indices, or ReturnedNaN, or LeftModel
RECURSIVE NumericStack(_, _)
NumericStack(rpn_indices, override_values) ==
  IF rpn_indices = <<>> THEN <<>>
  ELSE LET stack == NumericStack(SubSeq(rpn_indices, 1, Len(rpn_indices) - 1),
                                 override_values)
           token == rpn_indices[Len(rpn_indices)]
       IN  IF stack = ReturnedNaN \/ stack = LeftModel THEN stack
           ELSE IF token > 0 THEN
                  (IF IsUnmodelled(ValueOf(token, override_values)) THEN LeftModel
                   ELSE Append(stack, ValueOf(token, override_values)))
           ELSE IF Len(stack) < 2 THEN ReturnedNaN
           ELSE LET b == PopBA(stack).b
                    a == PopBA(stack).a
                IN  IF token = OP_DIV /\ IsZero(b) THEN ReturnedNaN
                    ELSE IF token = OP_POW /\ PyPow(a, b).raised THEN ReturnedNaN
                    ELSE IF token = OP_POW /\ a.n < 0 /\ ~IsInt(b) /\ ~IsNaN(a) /\ ~IsNaN(b)
                      THEN \* `if isinstance(res, complex): return float('nan')`
                           ReturnedNaN
                    ELSE LET r == IF token = OP_POW THEN PyPow(a, b).val ELSE Arith(token, a, b)
                         IN  IF IsUnmodelled(r) THEN LeftModel
                             ELSE Append(Pop2(stack), r)

\* `if len(stack) != 1: return float('nan')`, else stack[0]
evaluate_rpn_numeric(rpn_indices, override_values) ==
  LET stack == NumericStack(rpn_indices, override_values)
  IN  IF stack = LeftModel THEN Unmodelled
      ELSE IF stack = ReturnedNaN THEN NaN
      ELSE IF Len(stack) = 1 THEN stack[1] ELSE NaN

\* symbols(c['symbol']) and ops[token](a, b) as trees
SymbolLeaf(token) == [op |-> 0, args |-> <<Registry[token].symbol>>]
OpNode(token, x, y) == [op |-> token, args |-> <<x, y>>]
NoExpression == [op |-> 0, args |-> <<>>]

\* the list `stack` of rpn_to_sympy_expression, <<NoExpression>> once it returned None
RECURSIVE SympyStack(_)
SympyStack(rpn_indices) ==
  IF rpn_indices = <<>> THEN <<>>
  ELSE LET stack == SympyStack(SubSeq(rpn_indices, 1, Len(rpn_indices) - 1))
           token == rpn_indices[Len(rpn_indices)]
       IN  IF stack = <<NoExpression>> THEN stack
           ELSE IF token > 0 THEN Append(stack, SymbolLeaf(token))
           ELSE IF Len(stack) < 2 THEN <<NoExpression>>
           ELSE Append(Pop2(stack), OpNode(token, PopBA(stack).a, PopBA(stack).b))

\* `return stack[0], used_symbols`; an empty stack raises inside the try
rpn_to_sympy_expression(rpn_indices) ==
  LET stack == SympyStack(rpn_indices)
  IN  IF stack = <<>> THEN NoExpression ELSE stack[1]

(***************************************************************************)
(* One launch of evaluate_equations: lane eq_idx evaluates row eq_idx and, *)
(* on a match, claims a slot with atomicAdd and stores its pair. The host  *)
(* copies the buffer back after the launch has completed.                  *)
(***************************************************************************)
Lanes == 0..(MaxLanes - 1)

\* results_gpu = cp.zeros(1 + MAX_RESULTS_PER_BATCH * 2)
BufferIndices == 0..(2 * MaxResults)

InitGrid ==
  /\ l_pc = [eq_idx \in Lanes |-> "eval"]
  /\ l_target = [eq_idx \in Lanes |-> 0]
  /\ result_idx = [eq_idx \in Lanes |-> -1]
  /\ results = [j \in BufferIndices |-> 0]
  /\ written = {}
  /\ out_of_bounds = FALSE
  /\ h_pc = "launched"
  /\ results_host = [j \in BufferIndices |-> 0]
  /\ potential_matches = <<>>

num_targets == Len(Registry)
TargetIndices == 0..(num_targets - 1)

\* the targets a lane's result can pass both tests for: any non-empty set
HitSets == (SUBSET TargetIndices) \ {{}}

RECURSIVE ScanBackFrom(_, _)
ScanBackFrom(hits, i) ==
  IF i >= num_targets THEN num_targets
  ELSE IF (num_targets - 1 - i) \in hits THEN num_targets - 1 - i
  ELSE ScanBackFrom(hits, i + 1)

\* `for (int i = 0; i < num_targets; ++i)` from i on, up to the iteration
\* that passes both tests: its i, or num_targets if the loop is exhausted
RECURSIVE ScanFrom(_, _)
ScanFrom(hits, i) ==
  IF i >= num_targets THEN num_targets
  ELSE IF i \in hits THEN i
  ELSE ScanFrom(hits, i + 1)

\* the target index the loop stops at, for each set of passing targets
FirstHit == [hits \in HitSets |-> ScanFrom(hits, 0)]

\* the lane reaches `return` without a match (stack check or no target hit)
LaneNoMatch(eq_idx) ==
  /\ l_pc[eq_idx] = "eval"
  /\ l_pc' = [l_pc EXCEPT ![eq_idx] = "returned"]
  /\ UNCHANGED <<l_target, result_idx, results, written, out_of_bounds,
                 h_pc, results_host, potential_matches>>

\* `result_idx = atomicAdd(&results[0], 1)`
LaneAtomicAdd(eq_idx) ==
  /\ result_idx' = [result_idx EXCEPT ![eq_idx] = results[0]]
  /\ results' = [results EXCEPT ![0] = results[0] + 1]

\* the targets loop reaches the iteration of a match (i 0-based, as the
\* kernel stores it) and claims a slot; the loop reads nothing another lane writes
LaneMatch(eq_idx, hits) ==
  /\ l_pc[eq_idx] = "eval"
  /\ l_target' = [l_target EXCEPT ![eq_idx] = FirstHit[hits]]
  /\ LaneAtomicAdd(eq_idx)
  /\ l_pc' = [l_pc EXCEPT ![eq_idx] = "guard"]
  /\ UNCHANGED <<written, out_of_bounds, h_pc, results_host, potential_matches>>

SlotInRangeInclusive(idx) == idx <= MaxResults

\* `if (result_idx < 1000)`
SlotInRange(idx) == idx < MaxResults

\* a lane that stores nothing returns at once: its i is dead from here on
LaneGuard(eq_idx) ==
  /\ l_pc[eq_idx] = "guard"
  /\ IF SlotInRange(result_idx[eq_idx])
       THEN /\ l_pc' = [l_pc EXCEPT ![eq_idx] = "write_eq"]
            /\ UNCHANGED l_target
       ELSE /\ l_pc' = [l_pc EXCEPT ![eq_idx] = "returned"]
            /\ l_target' = [l_target EXCEPT ![eq_idx] = 0]
  /\ UNCHANGED <<result_idx, results, written, out_of_bounds,
                 h_pc, results_host, potential_matches>>

\* a store to results[j]
Store(j, value) ==
  IF j \in BufferIndices
    THEN /\ results' = [results EXCEPT ![j] = value]
         /\ written' = written \cup {j}
         /\ UNCHANGED out_of_bounds
    ELSE /\ out_of_bounds' = TRUE
         /\ UNCHANGED <<results, written>>

\* `results[1 + result_idx * 2] = eq_idx`
LaneWriteEq(eq_idx) ==
  /\ l_pc[eq_idx] = "write_eq"
  /\ Store(1 + result_idx[eq_idx] * 2, eq_idx)
  /\ l_pc' = [l_pc EXCEPT ![eq_idx] = "write_target"]
  /\ UNCHANGED <<l_target, result_idx, h_pc, results_host, potential_matches>>

\* `results[2 + result_idx * 2] = i; return`
LaneWriteTarget(eq_idx) ==
  /\ l_pc[eq_idx] = "write_target"
  /\ Store(2 + result_idx[eq_idx] * 2, l_target[eq_idx])
  /\ l_pc' = [l_pc EXCEPT ![eq_idx] = "returned"]
  /\ UNCHANGED <<l_target, result_idx, h_pc, results_host, potential_matches>>

\* `results_host = results_gpu.get()`: the copy waits for the launch
HostGet ==
  /\ h_pc = "launched"
  /\ \A eq_idx \in Lanes : l_pc[eq_idx] = "returned"
  /\ results_host' = results
  /\ h_pc' = "synced"
  /\ UNCHANGED <<l_pc, l_target, result_idx, results, written, out_of_bounds,
                 potential_matches>>

\* `num_found_raw = min(int(results_host[0]), MAX_RESULTS_PER_BATCH)`
num_found_raw(buffer) == IF buffer[0] < MaxResults THEN buffer[0] ELSE MaxResults

\* the decode loop over range(num_found_raw)
HostDecode ==
  /\ h_pc = "synced"
  /\ potential_matches' =
       [k \in 1..num_found_raw(results_host) |->
          <<results_host[1 + (k - 1) * 2], results_host[2 + (k - 1) * 2]>>]
  /\ h_pc' = "read"
  /\ UNCHANGED <<l_pc, l_target, result_idx, results, written, out_of_bounds,
                 results_host>>

NextGrid ==
  \/ \E eq_idx \in Lanes : LaneNoMatch(eq_idx) /\ UNCHANGED not_grid_vars
  \/ \E eq_idx \in Lanes : \E hits \in HitSets : LaneMatch(eq_idx, hits) /\ UNCHANGED not_grid_vars
  \/ \E eq_idx \in Lanes : LaneGuard(eq_idx) /\ UNCHANGED not_grid_vars
  \/ \E eq_idx \in Lanes : LaneWriteEq(eq_idx) /\ UNCHANGED not_grid_vars
  \/ \E eq_idx \in Lanes : LaneWriteTarget(eq_idx) /\ UNCHANGED not_grid_vars
  \/ (HostGet /\ UNCHANGED not_grid_vars)
  \/ (HostDecode /\ UNCHANGED not_grid_vars)

(***************************************************************************)
(* The rows of one batch, from producer_task to process_batch: the         *)
(* partition by the gravity token, the padding to a rectangle, the         *)
(* kernel's scan of a padded row and the host's removal of the padding.    *)
(* The generated expressions are left-deep products of 1..MaxOperands      *)
(* operands.                                                               *)
(***************************************************************************)
\* `const_map.get(gravity_symbol, -999)`
NO_TOKEN == -999

g_tok == IF gravity_symbol \in DOMAIN c_lookup THEN c_lookup[gravity_symbol] ELSE NO_TOKEN

SampleOperands == {c_lookup["two"], g_tok} \cap const_ids

RECURSIVE LeftDeep(_)
LeftDeep(operands) ==
  IF Len(operands) = 1 THEN <<operands[1]>>
  ELSE LeftDeep(SubSeq(operands, 1, Len(operands) - 1))
         \o <<operands[Len(operands)], OP_MUL>>

RowSamples ==
  UNION {{LeftDeep(operands) : operands \in [1..n -> SampleOperands]} : n \in 1..MaxOperands}

RawBatches == UNION {[1..k -> RowSamples] : k \in 0..MaxBatch}

InitRows ==
  /\ pr_pc = "generate"
  /\ raw_batch = <<>>
  /\ part_i = 0
  /\ std = <<>>
  /\ grav = <<>>
  /\ sent_std = <<>>
  /\ sent_grav = <<>>
  /\ rd = <<>>

\* raw_batch = generator.generate_random_batch(...); std, grav = [], []
RowsGenerate ==
  /\ pr_pc = "generate"
  /\ raw_batch' \in RawBatches
  /\ part_i' = 0
  /\ std' = <<>>
  /\ grav' = <<>>
  /\ pr_pc' = "partition"
  /\ UNCHANGED <<sent_std, sent_grav, rd>>

FirstIs(tok, eq) == eq[1] = tok

\* `g_tok in eq`
In(tok, eq) == \E k \in 1..Len(eq) : eq[k] = tok

\* one iteration of `for eq in raw_batch`
RowsPartition ==
  /\ pr_pc = "partition"
  /\ part_i < Len(raw_batch)
  /\ LET eq == raw_batch[part_i + 1]
     IN  IF In(g_tok, eq)
           THEN grav' = Append(grav, eq) /\ UNCHANGED std
           ELSE std' = Append(std, eq) /\ UNCHANGED grav
  /\ part_i' = part_i + 1
  /\ UNCHANGED <<pr_pc, raw_batch, sent_std, sent_grav, rd>>

\* the loop is exhausted
RowsPartitioned ==
  /\ pr_pc = "partition"
  /\ part_i = Len(raw_batch)
  /\ pr_pc' = "put_std"
  /\ UNCHANGED <<raw_batch, part_i, std, grav, sent_std, sent_grav, rd>>

\* `[0]*k`: empty for k <= 0
Zeros(k) == [j \in 1..k |-> 0]

LenOfFirst(part) == Len(part[1])

\* `max_l = max(len(e) for e in part)`
MaxLen(part) ==
  CHOOSE l \in {Len(part[i]) : i \in 1..Len(part)} :
    \A i \in 1..Len(part) : Len(part[i]) <= l

\* `[e + [0]*(max_l-len(e)) for e in part]`
Padded(part) ==
  LET max_l == MaxLen(part)
  IN  [i \in 1..Len(part) |-> part[i] \o Zeros(max_l - Len(part[i]))]

\* `if std: ... queue_standard.put(...)`
RowsPutStd ==
  /\ pr_pc = "put_std"
  /\ sent_std' = IF std # <<>> THEN Padded(std) ELSE <<>>
  /\ pr_pc' = "put_grav"
  /\ UNCHANGED <<raw_batch, part_i, std, grav, sent_grav, rd>>

\* `if grav: ... queue_gravity.put(...)`
RowsPutGrav ==
  /\ pr_pc = "put_grav"
  /\ sent_grav' = IF grav # <<>> THEN Padded(grav) ELSE <<>>
  /\ pr_pc' = "sent"
  /\ UNCHANGED <<raw_batch, part_i, std, grav, sent_std, rd>>

Sent(c) == IF c = "Standard" THEN sent_std ELSE sent_grav
Partition(c) == IF c = "Standard" THEN std ELSE grav

\* the tokens the kernel's loop handles from 0-based position i on:
\* `for (i < max_eq_len) { token = rpn[i]; if (token == 0) break; ... }`
RECURSIVE Evaluated(_, _, _)
Evaluated(row, i, max_eq_len) ==
  IF i >= max_eq_len \/ i >= Len(row) THEN <<>>
  ELSE IF row[i + 1] = 0 THEN <<>>
  ELSE <<row[i + 1]>> \o Evaluated(row, i + 1, max_eq_len)

\* `rpn_int = [t for t in rpn_int_padded if t != 0]`
Strip(rpn_int_padded) == SelectSeq(rpn_int_padded, LAMBDA t : t # 0)

\* process_batch(batch) of consumer c: the lane of row eq_idx scans it, the
\* host strips it
RowsProcess(c, eq_idx) ==
  /\ pr_pc = "sent"
  /\ eq_idx < Len(Sent(c))
  /\ LET equations_rpn_list == Sent(c)
         max_eq_len == Len(equations_rpn_list[1])
         row == equations_rpn_list[eq_idx + 1]
     IN  rd' = << [c |-> c, eq_idx |-> eq_idx,
                   evaluated |-> Evaluated(row, 0, max_eq_len),
                   rpn_int |-> Strip(row)] >>
  /\ UNCHANGED <<pr_pc, raw_batch, part_i, std, grav, sent_std, sent_grav>>

\* the next iteration of the producer's `while True`
RowsNext ==
  /\ pr_pc = "sent"
  /\ pr_pc' = "generate"
  /\ raw_batch' = <<>>
  /\ part_i' = 0
  /\ std' = <<>>
  /\ grav' = <<>>
  /\ sent_std' = <<>>
  /\ sent_grav' = <<>>
  /\ rd' = <<>>

NextRows ==
  \/ (RowsGenerate /\ UNCHANGED not_rows_vars)
  \/ (RowsPartition /\ UNCHANGED not_rows_vars)
  \/ (RowsPartitioned /\ UNCHANGED not_rows_vars)
  \/ (RowsPutStd /\ UNCHANGED not_rows_vars)
  \/ (RowsPutGrav /\ UNCHANGED not_rows_vars)
  \/ \E c \in Consumers : \E eq_idx \in 0..(MaxBatch - 1) :
       RowsProcess(c, eq_idx) /\ UNCHANGED not_rows_vars
  \/ (RowsNext /\ UNCHANGED not_rows_vars)

(***************************************************************************)
(* Steps 1 and 2 of is_valid_discovery for one call: the trivial-target    *)
(* test, the base evaluation and the sensitivity loop over the distinct    *)
(* constants of the expression. The outcome of an evaluation depends on    *)
(* the registry's values and is left open.                                 *)
(***************************************************************************)
\* the symbols a constant of the expression or the target may carry
SensSymbols == Symbols \cup TrivialTargets

\* the list tested in the loop `for cid in unique_const_ids`
SensitivityExempt ==
  {"one", "two", "half", "three", "pi", "e_math", "phi", "sqrt_2", "sqrt_3"}

InitSens ==
  /\ s_pc = "idle"
  /\ target_symbol = "none"
  /\ unique_symbols = {}
  /\ s_todo = {}
  /\ perturbed = {}
  /\ new_result = "none"

\* is_valid_discovery(rpn_indices, target_symbol, ...) is entered
SensCall ==
  /\ s_pc = "idle"
  /\ \E inputs \in SUBSET SensSymbols, target \in SensSymbols :
       /\ Cardinality(inputs) \in 1..MaxOperands
       /\ unique_symbols' = inputs
       /\ target_symbol' = target
  /\ s_pc' = "check_target"
  /\ UNCHANGED <<s_todo, perturbed, new_result>>

\* `if target_symbol in [...]: return False`
SensTrivialTarget ==
  /\ s_pc = "check_target"
  /\ s_pc' = IF target_symbol \in TrivialTargets THEN "returned_false" ELSE "base"
  /\ UNCHANGED <<target_symbol, unique_symbols, s_todo, perturbed, new_result>>

\* base_result = evaluate_rpn_numeric(...) and its complex/NaN/inf test
SensBase ==
  /\ s_pc = "base"
  /\ \E usable \in BOOLEAN :
       s_pc' = IF usable THEN "loop" ELSE "returned_false"
  /\ s_todo' = unique_symbols
  /\ UNCHANGED <<target_symbol, unique_symbols, perturbed, new_result>>

\* an iteration that takes `continue`
SensSkip ==
  /\ s_pc = "loop"
  /\ \E sym \in s_todo :
       /\ sym \in SensitivityExempt
       /\ s_todo' = s_todo \ {sym}
  /\ UNCHANGED <<s_pc, target_symbol, unique_symbols, perturbed, new_result>>

\* what evaluate_rpn_numeric can return for a finite base_result: nan (its
\* own answer to a complex power, a division by zero or an exception), an
\* infinity (a float product or quotient that overflows raises nothing), a
\* float within 1e-7 of base_result, or another float
NewResultKinds == {"nan", "inf", "same", "changed"}

\* `if isinstance(new_result, complex) or math.isnan(new_result): return False`
\* `if abs(new_result - base_result) < 1e-7 * abs(base_result): return False`
\* (abs(inf - base_result) is inf, which is not below the bound)
Rejects(kind) == kind \in {"nan", "same"}

\* an iteration that evaluates with value_float * 1.05 for cid
SensPerturb ==
  /\ s_pc = "loop"
  /\ \E sym \in s_todo :
       /\ sym \notin SensitivityExempt
       /\ s_todo' = s_todo \ {sym}
       /\ perturbed' = perturbed \cup {sym}
  /\ \E kind \in NewResultKinds :
       /\ new_result' = kind
       /\ s_pc' = IF Rejects(kind) THEN "returned_false" ELSE "loop"
  /\ UNCHANGED <<target_symbol, unique_symbols>>

\* the loop is exhausted: step 3 follows
SensPassed ==
  /\ s_pc = "loop"
  /\ s_todo = {}
  /\ s_pc' = "passed"
  /\ UNCHANGED <<target_symbol, unique_symbols, s_todo, perturbed, new_result>>

\* the call is over
SensReturn ==
  /\ s_pc \in {"passed", "returned_false"}
  /\ s_pc' = "idle"
  /\ target_symbol' = "none"
  /\ unique_symbols' = {}
  /\ s_todo' = {}
  /\ perturbed' = {}
  /\ new_result' = "none"

NextSens ==
  \/ (SensCall /\ UNCHANGED not_sens_vars)
  \/ (SensTrivialTarget /\ UNCHANGED not_sens_vars)
  \/ (SensBase /\ UNCHANGED not_sens_vars)
  \/ (SensSkip /\ UNCHANGED not_sens_vars)
  \/ (SensPerturb /\ UNCHANGED not_sens_vars)
  \/ (SensPassed /\ UNCHANGED not_sens_vars)
  \/ (SensReturn /\ UNCHANGED not_sens_vars)

(***************************************************************************)
(* Startup: main from its entry to the start of the three workers, with    *)
(* ConstantsManager._load_constants stepping through the records of the    *)
(* constants file.                                                         *)
(***************************************************************************)
\* the keys _load_constants reads from a record, in the order it reads them
RecordKeys == <<"name", "symbol", "value", "uncertainty", "dimensions">>
KeySet == {RecordKeys[i] : i \in 1..Len(RecordKeys)}

\* records of a file: complete, one key absent, or a value float() rejects
SampleRecords ==
  {[keys |-> KeySet, numeric |-> TRUE], [keys |-> KeySet, numeric |-> FALSE]}
    \cup {[keys |-> KeySet \ {k}, numeric |-> TRUE] : k \in KeySet}

\* the constants file: absent, not JSON, or a list of records
ConstantFiles ==
  {[present |-> FALSE, json |-> FALSE, records |-> <<>>],
   [present |-> TRUE, json |-> FALSE, records |-> <<>>]}
    \cup {[present |-> TRUE, json |-> TRUE, records |-> r] :
            r \in UNION {[1..n -> SampleRecords] : n \in 0..MaxFileRecords}}

\* os.path.basename(base_log) and names output/ may hold
base_log == "candidates"
OutputNames == {"candidates.log", "candidates_1.log", "notes.txt"}
\* f.startswith(os.path.basename(base_log))
StartsWithBase(f) == f \in {"candidates.log", "candidates_1.log"}

Workers == {"pro", "con_std", "con_grav"}

InitStart ==
  /\ st_pc = "idle"
  /\ constants_db = [present |-> FALSE, json |-> FALSE, records |-> <<>>]
  /\ raw_left = <<>>
  /\ st_constants = <<>>
  /\ st_raised = "none"
  /\ output_files = {}
  /\ output_at_start = {}
  /\ shared_dicts = {}
  /\ st_queues = {}
  /\ st_created = {}
  /\ st_started = {}

\* main is entered and reads config.yaml
StartMain(file, out) ==
  /\ st_pc = "idle"
  /\ st_pc' = "open"
  /\ constants_db' = file
  /\ output_files' = out
  /\ output_at_start' = out
  /\ UNCHANGED <<raw_left, st_constants, st_raised, shared_dicts, st_queues,
                 st_created, st_started>>

\* `with open(json_path) as f: raw_constants = json.load(f)`
LoadOpen ==
  /\ st_pc = "open"
  /\ IF ~constants_db.present
       THEN st_raised' = "FileNotFoundError" /\ st_pc' = "aborted" /\ UNCHANGED raw_left
     ELSE IF ~constants_db.json
       THEN st_raised' = "JSONDecodeError" /\ st_pc' = "aborted" /\ UNCHANGED raw_left
     ELSE raw_left' = constants_db.records /\ st_pc' = "records" /\ UNCHANGED st_raised
  /\ UNCHANGED <<constants_db, st_constants, output_files, output_at_start,
                 shared_dicts, st_queues, st_created, st_started>>

\* a subscript const_data[k] never raises
MissingKeyAsGet(const_data) == "none"

\* the first key whose subscript const_data[k] raises KeyError, "none" if none does
MissingKey(const_data) ==
  LET absent == {i \in 1..Len(RecordKeys) : RecordKeys[i] \notin const_data.keys}
  IN  IF absent = {} THEN "none"
      ELSE RecordKeys[CHOOSE i \in absent : \A j \in absent : i <= j]

\* what building processed_const raises: the subscripts in order, float()
\* after the one of "value"
RaisedBy(const_data) ==
  LET k == MissingKey(const_data)
  IN  IF k \in {"name", "symbol", "value"} THEN "KeyError"
      ELSE IF ~const_data.numeric THEN "ValueError"
      ELSE IF k # "none" THEN "KeyError"
      ELSE "none"

\* one iteration of `for const_data in raw_constants`; every except clause re-raises
LoadRecord ==
  /\ st_pc = "records"
  /\ raw_left # <<>>
  /\ LET const_data == Head(raw_left)
     IN  IF RaisedBy(const_data) = "none"
           THEN /\ st_constants' = Append(st_constants, const_data)
                /\ raw_left' = Tail(raw_left)
                /\ UNCHANGED <<st_pc, st_raised>>
           ELSE /\ st_raised' = RaisedBy(const_data)
                /\ st_pc' = "aborted"
                /\ raw_left' = <<>>
                /\ UNCHANGED st_constants
  /\ UNCHANGED <<constants_db, output_files, output_at_start, shared_dicts,
                 st_queues, st_created, st_started>>

\* the loop ends; the ConstantsManager is constructed
LoadDone ==
  /\ st_pc = "records"
  /\ raw_left = <<>>
  /\ st_pc' = "clean"
  /\ UNCHANGED <<constants_db, raw_left, st_constants, st_raised, output_files,
                 output_at_start, shared_dicts, st_queues, st_created, st_started>>

\* the old logs are removed
MainCleanLogs ==
  /\ st_pc = "clean"
  /\ output_files' = {f \in output_files : ~StartsWithBase(f)}
  /\ st_pc' = "manager"
  /\ UNCHANGED <<constants_db, raw_left, st_constants, st_raised, output_at_start,
                 shared_dicts, st_queues, st_created, st_started>>

\* `with mp.Manager() as pm:` and the three pm.dict
MainManager ==
  /\ st_pc = "manager"
  /\ shared_dicts' = {"log_state", "stats", "seen_clusters"}
  /\ st_pc' = "queues"
  /\ UNCHANGED <<constants_db, raw_left, st_constants, st_raised, output_files,
                 output_at_start, st_queues, st_created, st_started>>

MainQueues ==
  /\ st_pc = "queues"
  /\ st_queues' = {"q_std", "q_grav"}
  /\ st_pc' = "create"
  /\ UNCHANGED <<constants_db, raw_left, st_constants, st_raised, output_files,
                 output_at_start, shared_dicts, st_created, st_started>>

MainCreate ==
  /\ st_pc = "create"
  /\ st_created' = Workers
  /\ st_pc' = "start"
  /\ UNCHANGED <<constants_db, raw_left, st_constants, st_raised, output_files,
                 output_at_start, shared_dicts, st_queues, st_started>>

\* `pro.start(); con_std.start(); con_grav.start()`
MainStartWorkers ==
  /\ st_pc = "start"
  /\ st_started' = st_created
  /\ st_pc' = "started"
  /\ UNCHANGED <<constants_db, raw_left, st_constants, st_raised, output_files,
                 output_at_start, shared_dicts, st_queues, st_created>>

NextStart ==
  \/ \E file \in ConstantFiles : \E out \in SUBSET OutputNames :
       StartMain(file, out) /\ UNCHANGED not_start_vars
  \/ (LoadOpen /\ UNCHANGED not_start_vars)
  \/ (LoadRecord /\ UNCHANGED not_start_vars)
  \/ (LoadDone /\ UNCHANGED not_start_vars)
  \/ (MainCleanLogs /\ UNCHANGED not_start_vars)
  \/ (MainManager /\ UNCHANGED not_start_vars)
  \/ (MainQueues /\ UNCHANGED not_start_vars)
  \/ (MainCreate /\ UNCHANGED not_start_vars)
  \/ (MainStartWorkers /\ UNCHANGED not_start_vars)

(***************************************************************************)
(* Run configuration: config.yaml as main loads it, and the values the     *)
(* producer, the engine call and the logging filter of a consumer run with.*)
(***************************************************************************)
\* values a configuration file may give
ConfigBatchSizes == {1000, 10000, 50000}
ConfigMinConsts == {1, 2, 3}
ConfigMaxConsts == {4, 6}
ConfigTolerances == {[n |-> 1, d |-> 1000000000], [n |-> 1, d |-> 100]}

Configs ==
  [batch_size : ConfigBatchSizes, min_consts : ConfigMinConsts,
   max_consts : ConfigMaxConsts, tolerance : ConfigTolerances]

\* `current_batch_size = 50000`
current_batch_size == 50000
\* `LOOSE_TOLERANCE = 0.01`
LOOSE_TOLERANCE == [n |-> TOLERANCE_NUM, d |-> TOLERANCE_DEN]
\* `LOGGING_THRESHOLD = 0.01`
LOGGING_THRESHOLD == [n |-> 1, d |-> 100]

NotSet == [n |-> 0, d |-> 0]

InitConfig ==
  /\ config = [batch_size |-> 0, min_consts |-> 0, max_consts |-> 0, tolerance |-> NotSet]
  /\ cfg_pc = "init"
  /\ in_effect = [batch_size |-> 0, min_consts |-> 0, max_consts |-> 0,
                  tolerance |-> NotSet, threshold |-> NotSet]

\* `with open('config.yaml', 'r') as f: config = yaml.safe_load(f)`
ConfigLoad(cfg) ==
  /\ cfg_pc = "init"
  /\ config' = cfg
  /\ cfg_pc' = "loaded"
  /\ UNCHANGED in_effect

\* main hands `tolerance` to the consumers, which hand it to process_batch
ConfigMainTolerance ==
  /\ cfg_pc = "loaded"
  /\ in_effect' = [in_effect EXCEPT !.tolerance = LOOSE_TOLERANCE]
  /\ cfg_pc' = "started"
  /\ UNCHANGED config

\* the producer reads config['engine']['batch_size'] into a local it never
\* uses and calls generate_random_batch with literals
ConfigProducer ==
  /\ cfg_pc = "started"
  /\ in_effect.batch_size = 0
  /\ in_effect' = [in_effect EXCEPT !.batch_size = current_batch_size,
                                    !.min_consts = min_consts,
                                    !.max_consts = max_consts]
  /\ UNCHANGED <<config, cfg_pc>>

\* a consumer sets the threshold of its deviation filter
ConfigConsumer ==
  /\ cfg_pc = "started"
  /\ in_effect.threshold = NotSet
  /\ in_effect' = [in_effect EXCEPT !.threshold = LOGGING_THRESHOLD]
  /\ UNCHANGED <<config, cfg_pc>>

NextConfig ==
  \/ \E cfg \in Configs : ConfigLoad(cfg) /\ UNCHANGED not_config_vars
  \/ (ConfigMainTolerance /\ UNCHANGED not_config_vars)
  \/ (ConfigProducer /\ UNCHANGED not_config_vars)
  \/ (ConfigConsumer /\ UNCHANGED not_config_vars)

(***************************************************************************)
(* Launch geometry: process_batch launches whole blocks of threads for a   *)
(* batch; each thread computes its eq_idx and passes the kernel's guard or *)
(* returns. A lane whose row lies outside the equations array reads        *)
(* whatever memory holds there, so whether it reports a match is open.     *)
(***************************************************************************)
threads_per_block == ThreadsPerBlock

\* `(num_equations + threads_per_block - 1) // threads_per_block`
blocks_per_grid(n) == (n + threads_per_block - 1) \div threads_per_block

\* blockIdx.x * blockDim.x + threadIdx.x over the grid
GridLanes(n) == 0..(blocks_per_grid(n) * threads_per_block - 1)

\* `int num_equations_in_grid = gridDim.x * blockDim.x;`
num_equations_in_grid(n) == blocks_per_grid(n) * threads_per_block

\* batch sizes: up to two blocks
BatchSizes == 1..(2 * ThreadsPerBlock)

InitLaunch ==
  /\ num_equations = 0
  /\ entered = {}
  /\ reported = {}

\* process_batch with a non-empty batch launches the kernel
LaunchKernel(n) ==
  /\ num_equations = 0
  /\ num_equations' = n
  /\ UNCHANGED <<entered, reported>>

\* `if (eq_idx >= num_equations_in_grid) return;` is passed, and the lane
\* reads the tokens at equations[eq_idx * max_eq_len]
LaunchLaneEnter(eq_idx) ==
  /\ num_equations > 0
  /\ eq_idx \in GridLanes(num_equations) \ entered
  /\ ~(eq_idx >= num_equations_in_grid(num_equations))
  /\ entered' = entered \cup {eq_idx}
  /\ UNCHANGED <<num_equations, reported>>

\* the lane's value matches a target: it claims a slot with atomicAdd
LaunchLaneReport(eq_idx) ==
  /\ eq_idx \in entered \ reported
  /\ reported' = reported \cup {eq_idx}
  /\ UNCHANGED <<num_equations, entered>>

\* results_gpu.get() after every lane has entered; the call returns
LaunchDone ==
  /\ num_equations > 0
  /\ entered = GridLanes(num_equations)
  /\ num_equations' = 0
  /\ entered' = {}
  /\ reported' = {}

NextLaunch ==
  \/ \E n \in BatchSizes : LaunchKernel(n) /\ UNCHANGED not_launch_vars
  \/ \E eq_idx \in GridLanes(2 * ThreadsPerBlock) :
       LaunchLaneEnter(eq_idx) /\ UNCHANGED not_launch_vars
  \/ \E eq_idx \in GridLanes(2 * ThreadsPerBlock) :
       LaunchLaneReport(eq_idx) /\ UNCHANGED not_launch_vars
  \/ (LaunchDone /\ UNCHANGED not_launch_vars)

(***************************************************************************)
(* The host's loop over the entries of the results buffer: the re-         *)
(* evaluation, the deviation and _is_interesting. An entry is any pair     *)
(* (eq_idx, target_idx) a lane may have written, a lane outside the batch  *)
(* included.                                                               *)
(***************************************************************************)
\* rows of a batch of two: x y op, and a single constant padded to its length
HostBatches ==
  {<< <<x, y, op>>, <<z, 0, 0>> >> :
     x \in const_ids, y \in const_ids, op \in {OP_MUL, OP_SUB}, z \in {1, Len(Registry)}}

\* `abs(calculated_value - target_value) / abs(target_value)`, target_value # 0
relative_deviation(calculated_value, target_value) ==
  Rat(Abs(calculated_value.n * target_value.d - target_value.n * calculated_value.d)
        * target_value.d,
      calculated_value.d * target_value.d * Abs(target_value.n))

\* `deviation < 1e-15`: 1e-15 is below every positive rational of the model
BelowEpsilon(deviation) == deviation.n <= 0

\* rules 2 and 3 only
is_interesting_without_rule_1(rpn_int, target_idx, deviation) ==
  LET used_constant_indices == {rpn_int[k] - 1 : k \in {j \in 1..Len(rpn_int) : rpn_int[j] > 0}}
  IN  /\ ~BelowEpsilon(deviation)
      /\ ~(Cardinality(used_constant_indices) < 2)

\* _is_interesting(rpn_int, target_idx, deviation)
is_interesting(rpn_int, target_idx, deviation) ==
  LET used_constant_indices == {rpn_int[k] - 1 : k \in {j \in 1..Len(rpn_int) : rpn_int[j] > 0}}
  IN  /\ ~(target_idx \in used_constant_indices)
      /\ ~BelowEpsilon(deviation)
      /\ ~(Cardinality(used_constant_indices) < 2)

InitHost ==
  /\ hp_equations = <<>>
  /\ hp_left = 0
  /\ interesting_matches = <<>>

\* process_batch(batch) after the launch: num_found_raw entries to decode
HostCall(batch, found) ==
  /\ hp_equations = <<>>
  /\ hp_equations' = batch
  /\ hp_left' = found
  /\ interesting_matches' = <<>>

\* one iteration of `for i in range(num_found_raw)` on the entry (eq_idx, target_idx)
HostEntry(eq_idx, target_idx) ==
  /\ hp_left > 0
  /\ hp_left' = hp_left - 1
  /\ UNCHANGED hp_equations
  /\ IF eq_idx >= Len(hp_equations)
       THEN UNCHANGED interesting_matches
       ELSE LET rpn_int == Strip(hp_equations[eq_idx + 1])
                calculated_value == evaluate_rpn_cpu(rpn_int)
                target_value == const_vals(target_idx + 1)
                deviation == relative_deviation(calculated_value, target_value)
            IN  /\ ~IsUnmodelled(calculated_value)
                /\ IsNaN(calculated_value) \/ ~IsUnmodelled(deviation)
                /\ IF IsNaN(calculated_value)
                     THEN UNCHANGED interesting_matches
                   ELSE IF ~is_interesting(rpn_int, target_idx, deviation)
                     THEN UNCHANGED interesting_matches
                   ELSE interesting_matches' =
                          Append(interesting_matches,
                                 [equation_rpn |-> Join(rpn_str(rpn_int)),
                                  target |-> Registry[target_idx + 1].symbol,
                                  deviation |-> deviation,
                                  rpn_length |-> Len(rpn_int)])

\* `return interesting_matches`
HostReturn ==
  /\ hp_equations # <<>>
  /\ hp_left = 0
  /\ hp_equations' = <<>>
  /\ interesting_matches' = <<>>
  /\ UNCHANGED hp_left

NextHost ==
  \/ \E batch \in HostBatches : \E found \in 1..(MaxMatches + 1) :
       HostCall(batch, found) /\ UNCHANGED not_host_vars
  \/ \E eq_idx \in 0..2 : \E target_idx \in TargetIndices :
       HostEntry(eq_idx, target_idx) /\ UNCHANGED not_host_vars
  \/ (HostReturn /\ UNCHANGED not_host_vars)

(***************************************************************************)
(* One batch's matches in consumer_task: the sort, the threshold and the   *)
(* calls of is_valid_discovery. A match is its rpn_length, its deviation   *)
(* and its cluster signature; whether it passes the filters ahead of the   *)
(* duplicate check is open. The other consumer stores signatures in        *)
(* seen_clusters at any time.                                              *)
(***************************************************************************)
ClusterSignatures == {"s1", "s2"}

\* deviations below, at and above LOGGING_THRESHOLD
SampleDeviations == {[n |-> 1, d |-> 200], [n |-> 1, d |-> 100], [n |-> 1, d |-> 50]}

SampleMatches ==
  [rpn_length : {3, 5}, deviation : SampleDeviations, signature : ClusterSignatures]

\* the lists process_batch may return, `if matches:` holds
MatchLists ==
  UNION {[1..n -> SampleMatches] : n \in 1..(MaxMatches + 1)}

RatLess(x, y) == x.n * y.d < y.n * x.d

\* the order of the tuples (rpn_length, deviation)
KeyLess(x, y) ==
  \/ x.rpn_length < y.rpn_length
  \/ x.rpn_length = y.rpn_length /\ RatLess(x.deviation, y.deviation)

\* m goes behind every element that is not greater than it
RECURSIVE Insert(_, _)
Insert(m, sorted) ==
  IF sorted = <<>> THEN <<m>>
  ELSE IF KeyLess(m, sorted[1]) THEN <<m>> \o sorted
  ELSE <<sorted[1]>> \o Insert(m, Tail(sorted))

RECURSIVE InsertAll(_, _)
InsertAll(list, sorted) ==
  IF list = <<>> THEN sorted ELSE InsertAll(Tail(list), Insert(list[1], sorted))

\* the list left as process_batch returned it
Unsorted(list) == list

\* matches.sort(key=lambda x: (x['rpn_length'], x['deviation'])), a stable sort
Sort(list) == InsertAll(list, <<>>)

InitOrder ==
  /\ matches = <<>>
  /\ outcomes = <<>>
  /\ o_pc = "idle"
  /\ order_seen = {}

\* matches = engine.process_batch(...); matches.sort(...); valid = []
OrderBatch(list) ==
  /\ o_pc = "idle"
  /\ matches' = Sort(list)
  /\ outcomes' = <<>>
  /\ o_pc' = "loop"
  /\ UNCHANGED order_seen

\* the match the loop is at
Current == matches[Len(outcomes) + 1]

\* `if match['deviation'] > LOGGING_THRESHOLD: continue`
OrderSkip ==
  /\ o_pc = "loop"
  /\ Len(outcomes) < Len(matches)
  /\ RatLess(LOGGING_THRESHOLD, Current.deviation)
  /\ outcomes' = Append(outcomes, "skipped")
  /\ UNCHANGED <<matches, o_pc, order_seen>>

\* is_valid_discovery(rpn, ...) up to `if cluster_signature in seen_clusters`
OrderSubmit(passes) ==
  /\ o_pc = "loop"
  /\ Len(outcomes) < Len(matches)
  /\ ~RatLess(LOGGING_THRESHOLD, Current.deviation)
  /\ IF ~passes
       THEN outcomes' = Append(outcomes, "rejected") /\ UNCHANGED o_pc
     ELSE IF Current.signature \in order_seen
       THEN outcomes' = Append(outcomes, "duplicate") /\ UNCHANGED o_pc
     ELSE o_pc' = "dedup_set" /\ UNCHANGED outcomes
  /\ UNCHANGED <<matches, order_seen>>

\* `seen_clusters[cluster_signature] = True; return True`, `valid.append(match)`
OrderAccept ==
  /\ o_pc = "dedup_set"
  /\ order_seen' = order_seen \cup {Current.signature}
  /\ outcomes' = Append(outcomes, "accepted")
  /\ o_pc' = "loop"
  /\ UNCHANGED matches

\* the other consumer's is_valid_discovery stores a signature
OrderOtherStores(sig) ==
  /\ sig \notin order_seen
  /\ order_seen' = order_seen \cup {sig}
  /\ UNCHANGED <<matches, outcomes, o_pc>>

\* the loop is over, `valid` goes to the write loop; the next batch
OrderDone ==
  /\ o_pc = "loop"
  /\ Len(outcomes) = Len(matches)
  /\ matches' = <<>>
  /\ outcomes' = <<>>
  /\ o_pc' = "idle"
  /\ UNCHANGED order_seen

NextOrder ==
  \/ \E list \in MatchLists : OrderBatch(list) /\ UNCHANGED not_order_vars
  \/ (OrderSkip /\ UNCHANGED not_order_vars)
  \/ \E passes \in BOOLEAN : OrderSubmit(passes) /\ UNCHANGED not_order_vars
  \/ (OrderAccept /\ UNCHANGED not_order_vars)
  \/ \E sig \in ClusterSignatures : OrderOtherStores(sig) /\ UNCHANGED not_order_vars
  \/ (OrderDone /\ UNCHANGED not_order_vars)

(***************************************************************************)
(* Specifications                                                          *)
(***************************************************************************)
Init ==
  /\ InitGen /\ InitPipe /\ InitStop /\ InitFilter /\ InitLog /\ InitKernel /\ InitGrid
  /\ InitRows /\ InitSens /\ InitStart /\ InitConfig /\ InitLaunch /\ InitHost /\ InitOrder

NextGen ==
  \/ (GenCall /\ UNCHANGED not_gen_vars)
  \/ (GenPickConst /\ UNCHANGED not_gen_vars)
  \/ (GenPickOp /\ UNCHANGED not_gen_vars)
  \/ (GenReturn /\ UNCHANGED not_gen_vars)
  \/ (GenNext /\ UNCHANGED not_gen_vars)
  \/ (BatchCall /\ UNCHANGED not_gen_vars)
  \/ (BatchReturn /\ UNCHANGED not_gen_vars)
  \/ (BatchNext /\ UNCHANGED not_gen_vars)

SpecGen == Init /\ [][NextGen]_vars

SpecPipe == Init /\ [][NextPipe]_vars

SpecKernel == Init /\ [][NextKernel]_vars

SpecGrid == Init /\ [][NextGrid]_vars

SpecFilter == Init /\ [][NextFilter]_vars

SpecLog == Init /\ [][NextLog]_vars

SpecRows == Init /\ [][NextRows]_vars

SpecSens == Init /\ [][NextSens]_vars

SpecStart == Init /\ [][NextStart]_vars

SpecConfig == Init /\ [][NextConfig]_vars

SpecLaunch == Init /\ [][NextLaunch]_vars

SpecHost == Init /\ [][NextHost]_vars

SpecOrder == Init /\ [][NextOrder]_vars

\* Every live process is scheduled again and again. A batch of 50000 random
\* expressions holds rows with and rows without the gravity token again and
\* again. Failures (ProducerRaise, ConsumerEngineFail, ConsumerCrash) are
\* not forced.
FairPipe ==
  /\ SpecPipe
  /\ WF_vars(MainStep /\ UNCHANGED not_pipe_vars)
  /\ WF_vars(ProducerStep /\ UNCHANGED not_pipe_vars)
  /\ SF_vars(ProducerGenerate(TRUE, TRUE) /\ UNCHANGED not_pipe_vars)
  /\ \A c \in Consumers : WF_vars(ConsumerStep(c) /\ UNCHANGED not_pipe_vars)

SpecStop == Init /\ [][NextStop]_vars

FairStop ==
  /\ SpecStop
  /\ WF_vars(MainStep /\ UNCHANGED not_pipe_vars)
  /\ WF_vars(MainTerminate /\ UNCHANGED not_stop_vars)
  /\ WF_vars(ProducerStep /\ UNCHANGED not_pipe_vars)
  /\ SF_vars(ProducerGenerate(TRUE, TRUE) /\ UNCHANGED not_pipe_vars)
  /\ \A c \in Consumers : WF_vars(ConsumerStep(c) /\ UNCHANGED not_pipe_vars)

\* The session with an operator stop where only main's except clause is
\* sure to run on: nothing is assumed of the scheduling of the workers.
FairMain ==
  /\ SpecStop
  /\ WF_vars(MainTerminate /\ UNCHANGED not_stop_vars)

(***************************************************************************)
(* Claims                                                                  *)
(***************************************************************************)
\* simulated depth after the first k tokens (constant +1, operator -1)
RECURSIVE Depth(_, _)
Depth(s, k) == IF k = 0 THEN 0 ELSE Depth(s, k - 1) + (IF s[k] > 0 THEN 1 ELSE -1)

StackValid(s) ==
  /\ Len(s) >= 1
  /\ \A k \in 1..Len(s) :
       /\ s[k] < 0 => Depth(s, k - 1) >= 2
       /\ Depth(s, k) >= 1
  /\ Depth(s, Len(s)) = 1

\* C4: every token sequence returned by _generate_random_rpn(n), n >= 1, is
\* stack-valid: depth >= 2 before every operator, never below 1 after the
\* first token, exactly 1 after the last token.
C4_GeneratedRpnStackValid ==
  g_pc = "returned" => StackValid(rpn)

\* a returned three-operand expression whose first operator precedes the last constant
C4_Witness ==
  /\ g_pc = "returned"
  /\ num_constants = 3
  /\ Len(rpn) = 5
  /\ rpn[3] < 0
  /\ rpn[4] > 0

Other(c) == IF c = "Standard" THEN "Gravity" ELSE "Standard"
PutPc(c) == IF c = "Standard" THEN "put_std" ELSE "put_grav"
ProducerLeftLoop == p_pc \in {"fin_std", "fin_grav", "done"}

\* C5: the failure of one consumer (a crash, or its return when the engine
\* cannot be constructed) does not hang the producer: if the other consumer
\* stays alive and the producer meets no exception, the producer is again and
\* again about to enqueue a batch for the live consumer.
C5_DeadConsumerDoesNotHangProducer ==
  \A c \in Consumers :
    (<>(c_pc[c] \in {"crashed", "quit"})
       /\ []~Terminated(c_pc[Other(c)])
       /\ []~ProducerLeftLoop)
      => []<>(p_pc = PutPc(Other(c)))

\* the sentinel is the last item of its queue, and a consumer that has left
\* its loop has processed every batch that was put on its queue
DrainedAtExit ==
  /\ \A c \in Consumers : \A i \in 1..Len(q[c]) : q[c][i] = None => i = Len(q[c])
  /\ \A c \in Consumers :
       c_pc[c] \in {"finish", "done"} => unprocessed[c] = 0 /\ q[c] = <<>>

C7_QueueBoundedPutNeverBlocks ==
  /\ \A c \in Consumers : Len(q[c]) <= QUEUE_MAXSIZE
  /\ p_pc \in {"generate", "put_std", "put_grav"} =>
       \A c \in Consumers : p_obs[c] <= QSIZE_LIMIT
  /\ p_pc = "sleep" => \E c \in Consumers : p_obs[c] > QSIZE_LIMIT
  /\ \A c \in Consumers : p_pc = PutPc(c) => PutEnabled(c)

\* the fifth batch has just been put on the standard queue
C7_Witness ==
  /\ p_pc = "put_grav"
  /\ Len(q["Standard"]) = QUEUE_MAXSIZE
  /\ p_obs["Standard"] = QSIZE_LIMIT

\* C1: for any interleaving of the two consumers on the shared seen_clusters,
\* at most one call of is_valid_discovery returns True for a given cluster
\* signature.
C1_OneAcceptPerSignature ==
  \A sig \in SUBSET Symbols : returned_true[sig] <= 1

\* C2: whenever no consumer is inside a log write, the shared counter
\* log_state['total_records_written'] equals the number of records the two
\* consumers have written (no increment is lost).
C2_CounterCountsEveryRecord ==
  (\A c \in Consumers : w_pc[c] = "idle") => total_records_written = appended

\* C8: the k-th record written in the run (k from 0, over both consumers)
\* goes to segment (k div RecordsPerFile) + 1.
C8_RecordGoesToItsSegment ==
  [][\A c \in Consumers :
       (w_pc[c] = "log_write" /\ w_pc'[c] = "log_inc")
         => FileIndex(w_cnt[c]) = (appended \div RecordsPerFile) + 1]_vars

IsPrefix(s, t) == Len(s) <= Len(t) /\ \A i \in 1..Len(s) : s[i] = t[i]

\* C9: log segments are append-only: no step of either consumer removes a
\* segment, shortens it, or changes a line it already holds.
C9_SegmentsAppendOnly ==
  [][\A i \in DOMAIN files : i \in DOMAIN files' /\ IsPrefix(files[i], files'[i])]_vars

\* C3: a row in which + or - met two operands with different dimension
\* vectors is invalid: its lane writes no match to the results buffer,
\* whatever tokens follow the failing operator.
C3_DimensionMismatchNeverMatches ==
  (k_pc = "returned" /\ "addsub_mismatch" \in k_events) => k_match = 0

\* the lanes that have claimed a slot
Claimed == {eq_idx \in Lanes : result_idx[eq_idx] >= 0}

\* C10: lanes that match concurrently get distinct slot indices, a lane
\* stores only inside the results buffer, and the host, reading after the
\* launch, takes min(counter, capacity) entries, each one the pair stored
\* by the lane that claimed that slot.
C10_SlotsDistinctBoundedAndRead ==
  /\ \A a \in Claimed : \A b \in Claimed : a # b => result_idx[a] # result_idx[b]
  /\ ~out_of_bounds
  /\ written \subseteq (BufferIndices \ {0})
  /\ h_pc = "read" =>
       /\ Len(potential_matches) = num_found_raw(results)
       /\ results[0] = Cardinality(Claimed)
       /\ \A k \in 1..Len(potential_matches) :
            \E eq_idx \in Claimed :
              /\ result_idx[eq_idx] = k - 1
              /\ {1 + (k - 1) * 2, 2 + (k - 1) * 2} \subseteq written
              /\ potential_matches[k] = <<eq_idx, l_target[eq_idx]>>

\* more lanes matched than the buffer holds, and the host has read it
C10_Witness ==
  /\ h_pc = "read"
  /\ results[0] > MaxResults
  /\ Len(potential_matches) = MaxResults

Dimensionless(dim) == \A d \in Dims : dim[d] = 0

\* C11: every pair the kernel reports has the final dimension vector of the
\* row equal, component by component, to the dimension vector of the
\* target; a row whose final dimension is not zero is never matched to a
\* dimensionless target.
C11_ReportedPairDimensionsEqual ==
  (k_pc = "returned" /\ k_match # 0) =>
     /\ \A d \in Dims : dim_stack[1][d] = const_dims(k_match)[d]
     /\ ~Dimensionless(dim_stack[1]) => ~Dimensionless(const_dims(k_match))

\* a row of dimension length/time whose value is that of a dimensionless
\* target has been scored
C11_Witness ==
  /\ k_pc = "returned"
  /\ value_sp = 1
  /\ ~Dimensionless(dim_stack[1])
  /\ \E i \in const_ids :
       Dimensionless(const_dims(i)) /\ WithinTolerance(value_stack[1], const_vals(i))

\* C12: once a call of is_valid_discovery has returned True for a signature,
\* every call that begins later with the same symbol set and target returns
\* False: the same pair submitted twice in sequence gives True, then False.
C12_SecondSubmissionRejected ==
  \A c \in Consumers :
    f_dup[c] => (f_result[c] # "True" /\ f_pc[c] # "dedup_set")

\* a call whose signature had been accepted before was rejected as a duplicate
C12_Witness ==
  \E c \in Consumers : f_dup[c] /\ f_result[c] = "duplicate"

RejectingPaths == {"trivial_target", "numeric", "definition", "duplicate"}

\* consumer c's call of is_valid_discovery returns False in this step
ReturnsFalse(c) ==
  /\ f_result'[c] \in RejectingPaths
  /\ \/ f_pc[c] = "dedup_check"
     \/ f_pc[c] = "next_match" /\ f_left'[c] < f_left[c]

\* consumer c's call of is_valid_discovery returns True in this step
ReturnsTrue(c) == f_pc[c] = "dedup_set" /\ f_result'[c] = "True"

\* C13: seen_clusters changes only in a step in which a call returns True,
\* and that step stores exactly one key, the frozenset of the input symbols
\* plus the target; a call that returns False on any path leaves it
\* unchanged, and no key is ever removed.
C13_SeenClustersFrame ==
  [][/\ seen_clusters \subseteq seen_clusters'
     /\ seen_clusters' # seen_clusters =>
          \E c \in Consumers :
            ReturnsTrue(c) /\ seen_clusters' = seen_clusters \cup {f_sig[c]}
     /\ \A c \in Consumers :
          /\ ReturnsFalse(c) => seen_clusters' = seen_clusters
          /\ ReturnsTrue(c) =>
               /\ f_sig[c] \in seen_clusters'
               /\ (seen_clusters' \ seen_clusters) \subseteq {f_sig[c]}]_vars

\* two keys are stored, one call has just returned True and one False
C13_Witness ==
  /\ Cardinality(seen_clusters) >= 2
  /\ \E a \in Consumers : f_result[a] = "True"
  /\ \E b \in Consumers : f_result[b] \in RejectingPaths

\* C14: a call whose symbol set (inputs plus target) has more than two
\* members and lies inside one definitional group returns False, whatever
\* the outcome of the numeric tests.
C14_DefinitionalGroupRejected ==
  \A c \in Consumers :
    (/\ Cardinality(f_sig[c]) > 2
     /\ \E group \in definition_groups : f_sig[c] \subseteq group)
      => (f_result[c] # "True" /\ f_pc[c] \notin {"dedup_check", "dedup_set"})

\* a call was rejected on the definitional-group path
C14_Witness ==
  \E c \in Consumers :
    /\ f_result[c] = "definition"
    /\ \E group \in definition_groups : f_sig[c] \subseteq group

\* C15: a row containing a ^ whose exponent has a non-zero dimension vector,
\* or a division whose divisor is zero, is invalid: the kernel reports no
\* match for it, whatever tokens follow the failing operator.
C15_PowDimensionOrDivZeroNeverMatches ==
  (k_pc = "returned" /\ (k_events \cap {"pow_dimension", "div_zero"}) # {}) => k_match = 0

\* the kernel ended the row with a single, defined value
KernelValueValid == value_sp = 1 /\ ~IsNaN(value_stack[1])

\* C16: host and kernel implement the same operator semantics: for every
\* row the host yields a valid value exactly when the kernel ends with a
\* valid single value, and then the two values are the value of the same
\* expression, hence equal.
C16_HostAndKernelAgree ==
  (k_pc = "returned" /\ ~IsUnmodelled(evaluate_rpn_cpu(k_row))) =>
     /\ ~IsNaN(evaluate_rpn_cpu(k_row)) <=> KernelValueValid
     /\ KernelValueValid => evaluate_rpn_cpu(k_row) = value_stack[1]

\* C17: cancellation is cooperative: once the operator has requested a stop
\* while the pipeline is running, the producer puts the sentinel on both
\* queues and each consumer leaves through its own queue check (it is not
\* killed).
C17_StopIsCooperative ==
  (sigint # "none") ~>
     (/\ p_pc = "done"
      /\ \A c \in Consumers : c_pc[c] \in {"done", "crashed", "quit"})

MainWasInterrupted == sigint # "none"

\* C18: an interrupt that reaches main while it is joining makes main
\* terminate the producer and both consumers and reach the end of the
\* session, whatever the queues hold and wherever each worker is.
C18_InterruptForcesTermination ==
  /\ [](m_pc = "terminate_pro" => <>(m_pc = "ended" /\ MainWasInterrupted))
  /\ []((m_pc = "ended" /\ MainWasInterrupted) =>
          (Terminated(p_pc) /\ \A c \in Consumers : Terminated(c_pc[c])))

\* the session ended on an interrupt with a batch still queued and a
\* consumer killed by terminate()
C18_Witness ==
  /\ m_pc = "ended"
  /\ MainWasInterrupted
  /\ \E c \in Consumers : q[c] # <<>> /\ c_pc[c] = "terminated"

\* C19: the header line is written to the first log segment only: segments
\* 2, 3, ... hold discovery records and nothing else.
C19_HeaderOnlyInFirstSegment ==
  \A f_idx \in DOMAIN files :
    f_idx > 1 => \A k \in 1..Len(files[f_idx]) : files[f_idx][k] # HEADER

\* C20: for every row the producer enqueues (3 to 6 operands, hence at
\* most 11 tokens) the value stack pointer never exceeds the capacity 16
\* and the dimension stack pointer never exceeds 16*7, at every step: the
\* pointers never exceed the number of operands read so far.
C20_StackPointersWithinCapacity ==
  /\ value_sp <= Operands(k_row)
  /\ dim_sp = NUM_DIMENSIONS * value_sp
  /\ Operands(k_row) <= max_consts
  /\ Len(k_row) <= 2 * max_consts - 1
  /\ max_consts <= STACK_SIZE
  /\ value_sp <= STACK_SIZE
  /\ dim_sp <= STACK_SIZE * NUM_DIMENSIONS

\* the deepest stack of a row: all its operands pushed before any operator
C20_Witness ==
  /\ value_sp = MaxOperands
  /\ Operands(k_row) = MaxOperands
  /\ MaxOperands >= min_consts


\* number of tokens of s that satisfy the sign test
Operators(s) == Cardinality({k \in 1..Len(s) : s[k] < 0})

\* C21: for n >= 2 the generator walk always has a non-empty choice set (an
\* operator is allowed only at depth >= 2, only operators once the constants
\* are used up), it ends after exactly 2n-1 iterations with n constants and
\* n-1 operators, and generate_random_batch returns exactly batch_size
\* expressions, each built with n inside [min_consts, max_consts].
C21_WalkTerminatesBatchIsExact ==
  /\ g_pc # "raised"
  /\ (g_pc \in {"loop", "returned"} /\ num_constants >= 2) =>
       /\ Len(rpn) + consts_left + ops_left = 2 * num_constants - 1
       /\ Operands(rpn) = num_constants - consts_left
       /\ Operators(rpn) = (num_constants - 1) - ops_left
  /\ (g_pc = "loop" /\ (consts_left > 0 \/ ops_left > 0)) =>
       LET choices == Choices(consts_left, ops_left, stack_size)
       IN  /\ choices # {}
           /\ "OP" \in choices => stack_size >= 2
           /\ consts_left = 0 => choices = {"OP"}
  /\ (g_pc = "returned" /\ num_constants >= 2) =>
       /\ Len(rpn) = 2 * num_constants - 1
       /\ Operands(rpn) = num_constants
       /\ Operators(rpn) = num_constants - 1
  /\ g_pc \in {"loop", "returned"} =>
       num_constants \in b_min_consts..b_max_consts
  /\ b_pc = "loop" => batch_len <= batch_size
  /\ b_pc = "returned" => batch_len = batch_size

\* the last expression of a full batch has just been returned with the most operands
C21_Witness ==
  /\ g_pc = "returned"
  /\ num_constants = MaxOperands
  /\ Len(rpn) = 2 * MaxOperands - 1
  /\ b_pc = "loop"
  /\ batch_size = MaxBatch
  /\ batch_len = MaxBatch - 1
  /\ b_min_consts < b_max_consts

\* row is e followed by 0 tokens only
IsPaddingOf(row, e) ==
  /\ Len(row) >= Len(e)
  /\ SubSeq(row, 1, Len(e)) = e
  /\ \A k \in (Len(e) + 1)..Len(row) : row[k] = 0

Count(b, e) == Cardinality({i \in 1..Len(b) : b[i] = e})
Placed(b, e) == Cardinality({i \in 1..Len(b) : IsPaddingOf(b[i], e)})

\* C22: the producer partitions each generated batch exactly: every
\* generated expression is in exactly one of the two enqueued batches, as
\* often as it was generated; every row put on the gravity queue holds the
\* gravity token and no row put on the standard queue holds it.
C22_PartitionIsExact ==
  /\ pr_pc = "sent" =>
       \A e \in RowSamples :
         Count(raw_batch, e) = Placed(sent_std, e) + Placed(sent_grav, e)
  /\ \A i \in 1..Len(sent_grav) : \E k \in 1..Len(sent_grav[i]) : sent_grav[i][k] = g_tok
  /\ \A i \in 1..Len(sent_std) : \A k \in 1..Len(sent_std[i]) : sent_std[i][k] # g_tok

\* a full batch went to both queues
C22_Witness ==
  /\ pr_pc = "sent"
  /\ Len(raw_batch) = MaxBatch
  /\ sent_std # <<>>
  /\ sent_grav # <<>>

\* C23: every batch put on a queue is rectangular, as wide as the longest
\* expression of its partition, and each row is its expression followed by 0
\* tokens only; the kernel handles exactly the tokens before the first 0 and
\* the host's stripping gives back the expression.
C23_PaddingIsRectangularAndRemovable ==
  /\ \A c \in Consumers :
       Sent(c) # <<>> =>
         /\ Len(Sent(c)) = Len(Partition(c))
         /\ \A i, j \in 1..Len(Sent(c)) : Len(Sent(c)[i]) = Len(Sent(c)[j])
         /\ \E i \in 1..Len(Sent(c)) : Len(Sent(c)[1]) = Len(Partition(c)[i])
         /\ \A i \in 1..Len(Sent(c)) : IsPaddingOf(Sent(c)[i], Partition(c)[i])
  /\ rd # <<>> =>
       LET e == Partition(rd[1].c)[rd[1].eq_idx + 1]
       IN  /\ rd[1].evaluated = e
           /\ rd[1].rpn_int = e

\* process_batch read a row that is shorter than its batch is wide
C23_Witness ==
  /\ rd # <<>>
  /\ Len(rd[1].rpn_int) >= 3
  /\ Len(Sent(rd[1].c)[rd[1].eq_idx + 1]) > Len(rd[1].rpn_int)

\* the symbols of the constants of a token list
SymbolsOf(tokens) ==
  {Registry[tokens[k]].symbol : k \in {j \in 1..Len(tokens) : tokens[j] > 0}}

SymbolsUnique ==
  \A i, j \in const_ids : Registry[i].symbol = Registry[j].symbol => i = j

\* C24: rendering an expression to the space-separated symbol string and
\* parsing that string in the consumer succeeds and gives back the symbols
\* of the expression's constants; with unique symbols it gives back the
\* token sequence.
C24_RenderParseRoundTrip ==
  k_pc = "parsed" =>
    /\ c_ok
    /\ SymbolsOf(c_rpn) = SymbolsOf(k_row)
    /\ SymbolsUnique => c_rpn = k_row

\* a matched row with the power operator and the longest symbol went through
C24_Witness ==
  /\ k_pc = "parsed"
  /\ Len(k_row) = 2 * MaxOperands - 1
  /\ \E k \in 1..Len(k_row) : k_row[k] = OP_POW
  /\ \E k \in 1..Len(k_row) : k_row[k] > 0 /\ Registry[k_row[k]].symbol = "half"

\* C25: the sensitivity test perturbs exactly the distinct constants of the
\* expression that are outside the exempt set, the exempt set being the set
\* of the trivial-target test (alpha included): when the loop has run to its
\* end the perturbed constants are the distinct constants outside that set,
\* and a constant of that set is never perturbed.
C25_ExemptSetIsTrivialTargetSet ==
  /\ perturbed \cap TrivialTargets = {}
  /\ s_pc = "passed" => perturbed = unique_symbols \ TrivialTargets

\* C26: a call of is_valid_discovery whose target is a trivial target
\* returns False at the target test, whatever the expression and whatever
\* its evaluation would give, and leaves seen_clusters as it was.
C26_TrivialTargetRejectedFirst ==
  [][\A c \in Consumers :
       (f_left'[c] # f_left[c] /\ f_target'[c] \in TrivialTargets) =>
         /\ f_result'[c] = "trivial_target"
         /\ f_pc'[c] = "next_match"
         /\ f_valid' = f_valid
         /\ returned_true' = returned_true
         /\ seen_clusters' = seen_clusters]_vars

\* a call returned at the target test while seen_clusters holds a key
C26_Witness ==
  /\ seen_clusters # {}
  /\ \E c \in Consumers : f_result[c] = "trivial_target" /\ f_pc[c] = "next_match"

\* the step handles operator token op with two operands on the stack
OperatorStep(op) ==
  /\ k_pc = "fetch"
  /\ value_sp >= 2
  /\ Len(k_row') = Len(k_row) + 1
  /\ k_row'[Len(k_row')] = op

\* the step pushed a result
Pushed == k_pc' = "fetch" /\ Len(value_stack') = Len(value_stack) - 1

\* C27: for ^ with a dimensionless exponent b the kernel's result dimension
\* is a's dimension vector scaled component by component by the value of b,
\* non-integer b included (a length to the power one half has length
\* exponent 1/2).
C27_PowScalesDimensionByExponent ==
  [][(/\ OperatorStep(OP_POW)
      /\ Dimensionless(dim_stack[value_sp])
      /\ ~IsNaN(value_stack[value_sp])
      /\ Pushed) =>
       \A d \in Dims :
         dim_stack'[value_sp - 1][d] * value_stack[value_sp].d
           = dim_stack[value_sp - 1][d] * value_stack[value_sp].n]_vars

RECURSIVE SumOfOperandDims(_)
SumOfOperandDims(row) ==
  IF row = <<>> THEN [d \in Dims |-> 0]
  ELSE LET rest == SumOfOperandDims(SubSeq(row, 1, Len(row) - 1))
           token == row[Len(row)]
       IN  IF token > 0 THEN [d \in Dims |-> rest[d] + const_dims(token)[d]] ELSE rest

ProductChain(row) == \A k \in 1..Len(row) : row[k] > 0 \/ row[k] = OP_MUL

\* C28: for all operand dimension vectors a and b the kernel's dimension
\* result is a+b for * and a-b for /, component by component, and these
\* operators never fail the dimension check; so the dimension of a product
\* chain is the sum of its operands' dimensions, however the
\* multiplications are grouped.
C28_MulDivDimensions ==
  [][/\ \A op \in {OP_MUL, OP_DIV} :
          OperatorStep(op) =>
            /\ k_events' \subseteq k_events \cup {"div_zero"}
            /\ Pushed =>
                 \A d \in Dims :
                   dim_stack'[value_sp - 1][d] =
                     IF op = OP_MUL
                       THEN dim_stack[value_sp - 1][d] + dim_stack[value_sp][d]
                       ELSE dim_stack[value_sp - 1][d] - dim_stack[value_sp][d]
     /\ (k_pc' = "score" /\ ProductChain(k_row') /\ Len(value_stack') = 1) =>
          dim_stack'[1] = SumOfOperandDims(k_row')]_vars

\* a product chain of dimensioned constants, the second product inside the first
C28_Witness ==
  /\ k_pc = "returned"
  /\ ProductChain(k_row)
  /\ Len(k_row) = 2 * MaxOperands - 1
  /\ k_row[3] > 0
  /\ \A k \in 1..MaxOperands : ~Dimensionless(const_dims(k_row[k]))
  /\ dim_stack[1] = SumOfOperandDims(k_row)

\* the lanes that have executed the atomicAdd
Reported == {eq_idx \in Lanes : result_idx[eq_idx] # -1}

\* the indices i that the targets loop stops at only when i is the lowest passing target
LowestOfEveryHitSet ==
  {i \in TargetIndices :
     \A hits \in HitSets : FirstHit[hits] = i => (i \in hits /\ \A j \in hits : i <= j)}

\* C29: a lane reports at most one match per launch: of the targets that
\* pass both tests it reports the one of lowest index, and then stops; no
\* expression index is twice among the entries of the results buffer.
C29_OneReportPerLaneLowestIndex ==
  /\ \A eq_idx \in Lanes :
       /\ l_pc[eq_idx] \in {"guard", "write_eq", "write_target"} =>
            l_target[eq_idx] \in LowestOfEveryHitSet
       /\ eq_idx \in Reported => l_pc[eq_idx] \in {"guard", "write_eq", "write_target", "returned"}
  /\ results[0] = Cardinality(Reported)
  /\ \A j, k \in 1..Len(potential_matches) :
       j # k => potential_matches[j][1] # potential_matches[k][1]

\* the host decoded two entries, one of a lane that passed over the first target
C29_Witness ==
  /\ h_pc = "read"
  /\ Len(potential_matches) >= 2
  /\ \E k \in 1..Len(potential_matches) : potential_matches[k][2] > 0
  /\ \E eq_idx \in Lanes : result_idx[eq_idx] = -1

\* the constants file cannot be loaded: it is absent, is not JSON, or holds
\* a record without symbol, value or dimensions
LoadFails ==
  \/ ~constants_db.present
  \/ ~constants_db.json
  \/ \E i \in 1..Len(constants_db.records) :
       ~({"symbol", "value", "dimensions"} \subseteq constants_db.records[i].keys)

\* C30: when the constants file is missing, is malformed JSON, or holds a
\* record lacking symbol, value or dimensions, main never gets past the
\* load: the exception leaves ConstantsManager, and no queue, shared dict
\* or worker process exists and no file of output/ has been removed.
C30_LoadFailureAbortsStartup ==
  (st_pc # "idle" /\ LoadFails) =>
    /\ st_pc \in {"open", "records", "aborted"}
    /\ st_pc = "aborted" => st_raised # "none"
    /\ shared_dicts = {} /\ st_queues = {} /\ st_created = {} /\ st_started = {}
    /\ output_files = output_at_start

\* a second record lacks a key after the first was loaded, old logs exist
C30_Witness ==
  /\ st_pc = "aborted" /\ st_raised = "KeyError" /\ LoadFails
  /\ Len(st_constants) >= 1
  /\ \E f \in output_files : StartsWithBase(f)

\* the queue the producer's next statement puts on, "none" if it is no put
PutTarget ==
  IF p_pc \in {"put_std", "fin_std"} THEN "Standard"
  ELSE IF p_pc \in {"put_grav", "fin_grav"} THEN "Gravity"
  ELSE "none"

\* C31: no queue call blocks: a consumer is at its get only with an item on
\* its queue, and the producer is at a put, the sentinel puts of the finally
\* clause included, only with room on that queue.
C31_NoQueueCallBlocks ==
  /\ \A c \in Consumers : c_pc[c] = "get" => q[c] # <<>>
  /\ PutTarget # "none" => PutEnabled(PutTarget)

\* C32: the batch size, the operand range and the tolerance a run works
\* with are those of its configuration: the producer's batches, the
\* tolerance of the kernel and the threshold of the logging filter.
C32_ConfiguredValuesInEffect ==
  /\ in_effect.batch_size # 0 =>
       /\ in_effect.batch_size = config.batch_size
       /\ in_effect.min_consts = config.min_consts
       /\ in_effect.max_consts = config.max_consts
  /\ in_effect.tolerance # NotSet => in_effect.tolerance = config.tolerance
  /\ in_effect.threshold # NotSet => in_effect.threshold = config.tolerance

\* the tokens read so far are a fragment `x y op` of two constants and an operator
FragmentXYOp ==
  /\ Len(k_row) = 3
  /\ k_row[1] > 0 /\ k_row[2] > 0 /\ k_row[3] < 0

\* C33: for the fragment `x y op` every evaluator takes y as b and x as a
\* and computes x op y: the kernel, _evaluate_rpn_cpu, evaluate_rpn_numeric
\* and the tree of rpn_to_sympy_expression.
C33_OperandOrderAgrees ==
  FragmentXYOp =>
    LET x == const_vals(k_row[1])
        y == const_vals(k_row[2])
        op == k_row[3]
        x_op_y == Arith(op, x, y)
    IN  /\ rpn_to_sympy_expression(k_row) =
             OpNode(op, SymbolLeaf(k_row[1]), SymbolLeaf(k_row[2]))
        /\ ~IsNaN(x_op_y) =>
             /\ (k_pc = "fetch" /\ value_sp = 1) => value_stack[1] = x_op_y
             /\ evaluate_rpn_cpu(k_row) = x_op_y
             /\ evaluate_rpn_numeric(k_row, <<>>) = x_op_y

\* c G / has been evaluated by the lane: 4/3, not 3/4
C33_Witness ==
  /\ FragmentXYOp
  /\ k_row[3] = OP_DIV
  /\ Registry[k_row[1]].symbol = "c" /\ Registry[k_row[2]].symbol = "G"
  /\ k_pc = "fetch" /\ value_sp = 1
  /\ evaluate_rpn_numeric(k_row, <<>>) = [n |-> 4, d |-> 3]

\* C34: a call of is_valid_discovery whose evaluation with a non-exempt
\* constant raised by 5% is NaN, infinite or complex (which
\* evaluate_rpn_numeric returns as NaN) returns False at that iteration, so
\* it never reaches the store into seen_clusters.
C34_NonFinitePerturbedRejected ==
  [][(s_pc = "loop" /\ perturbed' # perturbed /\ new_result' \in {"nan", "inf"})
       => s_pc' = "returned_false"]_vars

\* C35: every lane that reads tokens or claims a slot of the results
\* buffer has an index below the batch size, whatever the batch size is.
C35_OnlyRowsOfTheBatchEvaluated ==
  \A eq_idx \in entered \cup reported : eq_idx < num_equations

Submitted == {i \in 1..Len(outcomes) : outcomes[i] # "skipped"}
PassedOtherFilters == {i \in 1..Len(outcomes) : outcomes[i] \in {"duplicate", "accepted"}}

SubmittedAscending ==
  \A i \in Submitted : \A j \in Submitted :
    i < j => ~KeyLess(matches[j], matches[i])

AcceptedIsShortest ==
  \A i \in PassedOtherFilters :
    outcomes[i] = "accepted" =>
      \A j \in PassedOtherFilters :
        matches[j].signature = matches[i].signature => ~KeyLess(matches[j], matches[i])

AboveThresholdSkipped ==
  \A i \in 1..Len(outcomes) :
    RatLess(LOGGING_THRESHOLD, matches[i].deviation) => outcomes[i] = "skipped"

SkipStoresNothing ==
  (/\ o_pc = "loop"
   /\ Len(outcomes) < Len(matches)
   /\ RatLess(LOGGING_THRESHOLD, Current.deviation)
   /\ outcomes' # outcomes)
    => order_seen' = order_seen

\* C37: within one batch the matches reach is_valid_discovery in ascending
\* (rpn_length, deviation) order, so of the matches of one cluster signature
\* that pass the other filters the accepted one has the least key; a match
\* whose deviation is above 0.01 is never submitted and stores nothing in
\* seen_clusters.
C37_ShortestOfAClusterAccepted ==
  /\ [](SubmittedAscending /\ AcceptedIsShortest /\ AboveThresholdSkipped)
  /\ [][SkipStoresNothing]_vars

\* the shorter of two matches of one cluster was accepted, the longer one
\* was a duplicate
C37_Witness ==
  /\ outcomes = <<"accepted", "duplicate">>
  /\ matches[1].signature = matches[2].signature
  /\ KeyLess(matches[1], matches[2])

====
